---- MODULE Spec2Model ----
(***************************************************************************)
(* Model of the jtkj-sensortag-gateway: the inbound frame pipeline         *)
(* (lib/reader.js: readDataTokens, unwrap, makeDataEntry), the message     *)
(* schema of config.js (gateway.dataTypes, gateway.topics), the backend    *)
(* forwarding of lib/comm-socket.js (sendMsgs) and the outbound queue of   *)
(* lib/uart.js (uartWrite, uartSender).                                    *)
(*                                                                         *)
(* Representation of JavaScript values:                                    *)
(*   - a string is a tuple of one-character strings (<<"p","o">>), so that *)
(*     padding, slicing and parsing are computed, not assumed;             *)
(*   - a number is a one-element tuple <<n>> and null is <<>>, so that a   *)
(*     session column can hold both;                                       *)
(*   - an object is a function whose DOMAIN is its set of own keys.        *)
(* A received frame is given as the sequence of its comma-separated        *)
(* tokens, each token already cut at its first colon and trimmed           *)
(* (reader.js:154-158): <<name, value>> with value <<>> when the token     *)
(* has no colon (pair[1] is then the empty string).                        *)
(***************************************************************************)
EXTENDS Integers, Sequences, FiniteSets, TLC

(* ----------------------------- bounds --------------------------------- *)
\* longest frame, in tokens, that the model delivers
MaxTokens == 4
\* cap on the outbound queue (the code's queue is unbounded)
MaxQueue == 1
\* gateway.maxSessionRows, scaled down from 4500 (config.js)
maxSessionRows == 2
\* cap on the outbound queue where jobs come from the console and the timers
MaxJobs == 2
\* longest received buffer decoded from its escape characters, in bytes
MaxBytes == 4
\* gateway.ports.maxTries, scaled down from 5 (config.js)
maxTries == 0
\* how many times findPorts is called in a run
MaxCycles == 3
\* longest unknown field label tried, in characters
MaxLabel == 3
\* the wall clock read by moment() takes values in 0..MaxTime
MaxTime == 1
\* the clock readings of the heartbeat, in half heartbeat intervals
MaxClock == 6
\* the longest line typed at the port menu
MaxLine == 3
\* gateway.heartbeatInterval (15000 ms), in clock ticks
heartbeatInterval == 2

(* ------------------------- program constants -------------------------- *)
\* gateway.uart.txlength
txlength == 80

(* ------------------------------ strings ------------------------------- *)
S_start == <<"s", "t", "a", "r", "t">>
S_end   == <<"e", "n", "d">>
S_pong  == <<"p", "o", "n", "g">>

DecDigits == {"0", "1", "2", "3", "4", "5", "6", "7", "8", "9"}
HexDigits == DecDigits \cup {"a", "b", "c", "d", "e", "f", "A", "B", "C", "D", "E", "F"}

\* value of one hexadecimal digit (Number.parseInt(c, 16))
HexVal(c) ==
  CASE c = "0" -> 0 [] c = "1" -> 1 [] c = "2" -> 2 [] c = "3" -> 3
    [] c = "4" -> 4 [] c = "5" -> 5 [] c = "6" -> 6 [] c = "7" -> 7
    [] c = "8" -> 8 [] c = "9" -> 9
    [] c \in {"a", "A"} -> 10 [] c \in {"b", "B"} -> 11
    [] c \in {"c", "C"} -> 12 [] c \in {"d", "D"} -> 13
    [] c \in {"e", "E"} -> 14 [] c \in {"f", "F"} -> 15

\* the character of one hexadecimal digit (Number.prototype.toString(16))
HexChar(n) ==
  <<"0", "1", "2", "3", "4", "5", "6", "7", "8", "9", "a", "b", "c", "d", "e", "f">>[n + 1]

\* Number.parseInt(s, 16) for a string of hexadecimal digits
RECURSIVE parseHex(_)
parseHex(s) ==
  IF s = <<>> THEN 0
  ELSE 16 * parseHex(SubSeq(s, 1, Len(s) - 1)) + HexVal(s[Len(s)])

\* Number(d) for the decimal strings the model uses: <<n>>, or <<>> for NaN.
\* Number("") is 0 in JavaScript.
RECURSIVE parseDec(_)
parseDec(s) ==
  IF s = <<>> THEN 0
  ELSE 10 * parseDec(SubSeq(s, 1, Len(s) - 1)) + HexVal(s[Len(s)])

Number(d) ==
  IF \A i \in 1..Len(d) : d[i] \in DecDigits THEN <<parseDec(d)>> ELSE <<>>

isNaN(a) == a = <<>>

\* padSlice4 without the padding
padSlice4_unpadded(d) == d

\* ("0000" + d).slice(-4)
padSlice4(d) ==
  LET s == <<"0", "0", "0", "0">> \o d
  IN  SubSeq(s, Len(s) - 3, Len(s))

\* the ASCII code of a character written by Buffer.asciiWrite
\* ("NUL" and "SOH" stand for the characters \x00 and \x01)
CharCode(c) ==
  CASE c = "p" -> 112 [] c = "o" -> 111 [] c = "n" -> 110 [] c = "g" -> 103
    [] c = "NUL" -> 0 [] c = "SOH" -> 1 [] c = "H" -> 72 [] c = "B" -> 66
    [] c = "#" -> 35 [] c = "0" -> 48 [] c = "1" -> 49 [] c = "2" -> 50
    [] c = "3" -> 51 [] c = "5" -> 53
    [] c = "I" -> 73 [] c = "d" -> 100 [] c = "e" -> 101 [] c = "t" -> 116
    [] c = "i" -> 105 [] c = "f" -> 102 [] c = "y" -> 121

\* the character Buffer.toString gives for a byte
CodeChar(b) ==
  CASE b = 112 -> "p" [] b = 111 -> "o" [] b = 110 -> "n" [] b = 103 -> "g"
    [] b = 1 -> "SOH" [] b = 72 -> "H" [] b = 66 -> "B"
    [] b = 35 -> "#" [] b = 48 -> "0" [] b = 49 -> "1" [] b = 50 -> "2"
    [] b = 51 -> "3" [] b = 53 -> "5"
    [] b = 73 -> "I" [] b = 100 -> "d" [] b = 101 -> "e" [] b = 116 -> "t"
    [] b = 105 -> "i" [] b = 102 -> "f" [] b = 121 -> "y"

(* ------------------------------ schema -------------------------------- *)
\* gateway.topics
topics == <<"event", "tamaActions", "additionalMessages", "sensordata", "commands">>

\* gateway.dataTypes: shortName, nameInDB, topics, forceSend (the decoder
\* `fun` of each entry is the operator fun below)
dataTypes == <<
  [shortName |-> "time",     nameInDB |-> "timeStamp",      topics |-> <<"event", "sensordata">>,         forceSend |-> FALSE],
  [shortName |-> "id",       nameInDB |-> "sensortagID",    topics |-> <<"event", "additionalMessages">>, forceSend |-> FALSE],
  [shortName |-> "ping",     nameInDB |-> "ping",           topics |-> <<"commands">>,                    forceSend |-> FALSE],
  [shortName |-> "session",  nameInDB |-> "session",        topics |-> <<"commands">>,                    forceSend |-> FALSE],
  [shortName |-> "EAT",      nameInDB |-> "eat",            topics |-> <<"tamaActions">>,                 forceSend |-> FALSE],
  [shortName |-> "EXERCISE", nameInDB |-> "exercise",       topics |-> <<"tamaActions">>,                 forceSend |-> FALSE],
  [shortName |-> "PET",      nameInDB |-> "pet",            topics |-> <<"tamaActions">>,                 forceSend |-> FALSE],
  [shortName |-> "ACTIVATE", nameInDB |-> "ACTIVATE",       topics |-> <<"tamaActions">>,                 forceSend |-> FALSE],
  [shortName |-> "MSG1",     nameInDB |-> "msg1",           topics |-> <<"additionalMessages">>,          forceSend |-> TRUE],
  [shortName |-> "MSG2",     nameInDB |-> "msg2",           topics |-> <<"additionalMessages">>,          forceSend |-> TRUE],
  [shortName |-> "temp",     nameInDB |-> "temperature",    topics |-> <<"sensordata">>,                  forceSend |-> FALSE],
  [shortName |-> "humid",    nameInDB |-> "humidity",       topics |-> <<"sensordata">>,                  forceSend |-> FALSE],
  [shortName |-> "press",    nameInDB |-> "pressure",       topics |-> <<"sensordata">>,                  forceSend |-> FALSE],
  [shortName |-> "light",    nameInDB |-> "lightIntensity", topics |-> <<"sensordata">>,                  forceSend |-> FALSE],
  [shortName |-> "ax",       nameInDB |-> "ax",             topics |-> <<"sensordata">>,                  forceSend |-> FALSE],
  [shortName |-> "ay",       nameInDB |-> "ay",             topics |-> <<"sensordata">>,                  forceSend |-> FALSE],
  [shortName |-> "az",       nameInDB |-> "az",             topics |-> <<"sensordata">>,                  forceSend |-> FALSE],
  [shortName |-> "gx",       nameInDB |-> "gx",             topics |-> <<"sensordata">>,                  forceSend |-> FALSE],
  [shortName |-> "gy",       nameInDB |-> "gy",             topics |-> <<"sensordata">>,                  forceSend |-> FALSE],
  [shortName |-> "gz",       nameInDB |-> "gz",             topics |-> <<"sensordata">>,                  forceSend |-> FALSE] >>

\* d.split(";"): the pieces of d between semicolons
RECURSIVE splitSemi(_, _, _)
splitSemi(d, k, piece) ==
  IF k > Len(d) THEN <<piece>>
  ELSE IF d[k] = ";" THEN <<piece>> \o splitSemi(d, k + 1, <<>>)
  ELSE splitSemi(d, k + 1, Append(piece, d[k]))

\* the decoders: [ok |-> TRUE, val |-> decoded] or [ok |-> FALSE, err |-> kind]
Resolve(v) == [ok |-> TRUE, val |-> v]
Reject(e)  == [ok |-> FALSE, err |-> e]

numericFun(d, e) ==
  LET a == Number(d) IN IF isNaN(a) \/ d = <<>> THEN Reject(e) ELSE Resolve(a)

fun(shortName, d) ==
  CASE shortName = "id" ->
         IF (\A i \in 1..Len(d) : d[i] \in HexDigits) /\ Len(d) <= 4 /\ d # <<>>
         THEN Resolve(padSlice4(d))
         ELSE Reject("Error: SensorTag ID has to be 4 hex digits")
    [] shortName = "ping" -> Resolve(S_pong)
    [] shortName = "session" ->
         IF d \in {S_start, S_end} THEN Resolve(d = S_start)
         ELSE Reject("Error: Session instruction not recognized")
    [] shortName = "EAT" ->
         LET a == Number(d)
         IN  IF isNaN(a) \/ d = <<>> THEN Reject("Error: Non-numeric EAT increment")
             ELSE Resolve(<<a[1], 0, 0>>)
    [] shortName = "EXERCISE" ->
         LET a == Number(d)
         IN  IF isNaN(a) \/ d = <<>> THEN Reject("Error: Non-numeric EXERCISE increment")
             ELSE Resolve(<<0, a[1], 0>>)
    [] shortName = "PET" ->
         LET a == Number(d)
         IN  IF isNaN(a) \/ d = <<>> THEN Reject("Error: Non-numeric PET increment")
             ELSE Resolve(<<0, 0, a[1]>>)
    [] shortName = "ACTIVATE" ->
         LET a == [i \in 1..Len(splitSemi(d, 1, <<>>)) |-> Number(splitSemi(d, 1, <<>>)[i])]
         IN  IF Len(a) # 3 THEN Reject("Error: ACTIVATE needs three arguments.")
             ELSE IF (\E i \in 1..3 : isNaN(a[i])) \/ d = <<>>
             THEN Reject("Error: Non-numeric ACTIVATE increment")
             ELSE Resolve(<<a[1][1], a[2][1], a[3][1]>>)
    [] shortName \in {"MSG1", "MSG2"} -> Resolve(d)
    [] OTHER -> numericFun(d, "Error: Non-numeric value")

(* --------------------------- JavaScript objects ------------------------ *)
\* {} and obj[k] = v, delete obj[k], k in obj
EmptyObj == <<>>
Put(obj, k, v) == (k :> v) @@ obj
Delete(obj, k) == [x \in DOMAIN obj \ {k} |-> obj[x]]
Has(obj, k) == k \in DOMAIN obj

\* Array.prototype.includes and a push that keeps the array
includes(arr, x) == \E i \in 1..Len(arr) : arr[i] = x

(* ------------------------------ tokenizer ------------------------------ *)
\* gateway.dataTypes.find(type => type.shortName == name): index, 0 if none
findType(name) ==
  IF \E i \in 1..Len(dataTypes) : dataTypes[i].shortName = name
  THEN CHOOSE i \in 1..Len(dataTypes) :
         /\ dataTypes[i].shortName = name
         /\ \A j \in 1..(i - 1) : dataTypes[j].shortName # name
  ELSE 0

NoError == "none"

\* the body of the `then` of one decoded token: for (const table of dtype.topics)
RECURSIVE addToTables(_, _, _, _)
addToTables(acc, dtype, d, k) ==
  IF k > Len(dtype.topics) THEN acc
  ELSE LET table == dtype.topics[k]
           addr1 == IF dtype.shortName = "id" THEN d ELSE acc.addr
           sends1 == IF dtype.forceSend # FALSE /\ ~includes(acc.sends, table)
                     THEN Append(acc.sends, table) ELSE acc.sends
           dict0 == IF Has(acc.resultDicts, table) THEN acc.resultDicts[table] ELSE EmptyObj
           dicts1 == Put(acc.resultDicts, table, Put(dict0, dtype.nameInDB, d))
       IN  addToTables([acc EXCEPT !.addr = addr1, !.sends = sends1, !.resultDicts = dicts1],
                       dtype, d, k + 1)

\* readToken in which a token that decodes clears the rejection of an earlier one
readToken_lastWins(acc, token) ==
  LET i == findType(token[1])
  IN  IF i = 0
      THEN [acc EXCEPT !.error = IF @ = NoError THEN "Error: Unknown field label" ELSE @]
      ELSE LET r == fun(token[1], token[2])
           IN  IF r.ok THEN addToTables([acc EXCEPT !.error = NoError], dataTypes[i], r.val, 1)
               ELSE [acc EXCEPT !.error = IF @ = NoError THEN r.err ELSE @]

\* one iteration of the token loop. A rejection settles the promise (the first
\* one wins) but the loop goes on over the remaining tokens.
readToken(acc, token) ==
  LET i == findType(token[1])
  IN  IF i = 0
      THEN [acc EXCEPT !.error = IF @ = NoError THEN "Error: Unknown field label" ELSE @]
      ELSE LET r == fun(token[1], token[2])
           IN  IF r.ok THEN addToTables(acc, dataTypes[i], r.val, 1)
               ELSE [acc EXCEPT !.error = IF @ = NoError THEN r.err ELSE @]

RECURSIVE readTokensFrom(_, _, _)
readTokensFrom(acc, tokens, k) ==
  IF k > Len(tokens) THEN acc
  ELSE readTokensFrom(readToken(acc, tokens[k]), tokens, k + 1)

NoAddr == <<>>

\* readDataTokens(data): [error |-> NoError, addr, sends, resultDicts] when the
\* promise resolves, [error |-> message, ...] when it rejects
readDataTokens(tokens) ==
  LET acc == readTokensFrom([error |-> NoError, addr |-> NoAddr, sends |-> <<>>,
                             resultDicts |-> EmptyObj], tokens, 1)
  IN  IF acc.error = NoError /\ acc.addr = NoAddr
      THEN [acc EXCEPT !.error = "Error: No SensorTag ID given!"]
      ELSE acc

(* ------------------------------- state --------------------------------- *)
VARIABLES
  isServer,        \* gateway.isServer, set by the -s option at start-up
  port,            \* gateway.port: "undefined" until main() creates the port
  sessionData,     \* reader.js: sender address -> session buffer
  uartSendBuffer,  \* uart.js: FIFO of [txBuf, publish, blockedCount]
  ev,              \* what the last handler did, and for a frame the sender's
                   \* session buffer as it was before (observation only)
  rx,              \* the frame the last handler was given, where recorded
  finder,          \* portFinder.js: its variables count, n, ok, all, blacklist
  pollers,         \* the intervals of listPorts that have not been cleared,
                   \* each with its oldfinds and the findPorts call it serves
  discovery,       \* findPorts: how many calls so far (started) and whether
                   \* the race of the last call is still unsettled (pending)
  responded,       \* uart.responded
  transports,      \* the SerialPort objects main has created, in order, each
                   \* with its path and state; gateway.port is the last one
  timers,          \* the timeouts that are set and have not fired
  timeouts,        \* per hardware id, how many challenges of a transport of
                   \* that device have timed out since the blacklist was last
                   \* cleared (observation only)
  autofind,        \* gateway.ports.autofind, as the configuration sets it
  hbTime,          \* uart.hbTime, the clock reading main and the heartbeat
                   \* frame store
  clock            \* Date.now()

\* the variables of port discovery, of the challenge and of the heartbeat
discoveryVars == <<finder, pollers, discovery, responded, transports, timers, timeouts,
                   autofind, hbTime, clock>>

vars == <<isServer, port, sessionData, uartSendBuffer, ev, rx, discoveryVars>>

null == <<>>

\* the sensor columns of a session buffer
columns == {"temperature", "humidity", "pressure", "lightIntensity", "timeStamp",
            "ax", "ay", "az", "gx", "gy", "gz"}

\* makeDataEntry(addr), with moment().utc() read as `now`
makeDataEntry(addr, now) ==
  [sensortagID |-> addr, sessionTimeStamp |-> now,
   temperature |-> <<>>, humidity |-> <<>>, pressure |-> <<>>, lightIntensity |-> <<>>,
   timeStamp |-> <<>>, ax |-> <<>>, ay |-> <<>>, az |-> <<>>,
   gx |-> <<>>, gy |-> <<>>, gz |-> <<>>]

(* ---------------------------- outbound queue --------------------------- *)
\* str.substr(0, n)
substr0(str, n) == SubSeq(str, 1, IF Len(str) < n THEN Len(str) ELSE n)

\* uartWrite that cuts the text one character later, leaving no room for
\* the closing zero
uartWrite_untruncated(msg, publish) ==
  LET txBuf ==
        IF isServer /\ ~Has(msg, "internal")
        THEN LET addr == IF Has(msg, "addr") /\ msg.addr # null THEN msg.addr ELSE <<"f", "f", "f", "f">>
                 n == parseHex(addr)
                 str == substr0(msg.str, txlength - 2)
             IN  [i \in 1..txlength |->
                    IF i = 1 THEN n % 256
                    ELSE IF i = 2 THEN (n \div 256) % 256
                    ELSE IF i - 2 <= Len(str) THEN CharCode(str[i - 2]) ELSE 0]
        ELSE LET str == substr0(msg.str, txlength)
             IN  [i \in 1..txlength |-> IF i <= Len(str) THEN CharCode(str[i]) ELSE 0]
  IN  [txBuf |-> txBuf, publish |-> publish,
       blockedCount |-> IF Has(msg, "blockedCount") THEN msg.blockedCount ELSE 0]

\* uartWrite(msg, publish): the queue entry built for msg
uartWrite(msg, publish) ==
  LET txBuf ==
        IF isServer /\ ~Has(msg, "internal")
        THEN LET addr == IF Has(msg, "addr") /\ msg.addr # null THEN msg.addr ELSE <<"f", "f", "f", "f">>
                 n == parseHex(addr)
                 str == substr0(msg.str, txlength - 3)
             IN  [i \in 1..txlength |->
                    IF i = 1 THEN n % 256
                    ELSE IF i = 2 THEN (n \div 256) % 256
                    ELSE IF i - 2 <= Len(str) THEN CharCode(str[i - 2]) ELSE 0]
        ELSE LET str == substr0(msg.str, txlength - 1)
             IN  [i \in 1..txlength |-> IF i <= Len(str) THEN CharCode(str[i]) ELSE 0]
  IN  [txBuf |-> txBuf, publish |-> publish,
       blockedCount |-> IF Has(msg, "blockedCount") THEN msg.blockedCount ELSE 0]

(* ------------------------------ unwrap --------------------------------- *)
\* Object.values(tamaActions).reduce((a,b) => [a[0]+b[0], a[1]+b[1], a[2]+b[2]])
RECURSIVE sumActions(_, _)
sumActions(obj, keys) ==
  IF keys = {} THEN <<0, 0, 0>>
  ELSE LET k == CHOOSE x \in keys : TRUE
           r == sumActions(obj, keys \ {k})
       IN  <<obj[k][1] + r[1], obj[k][2] + r[2], obj[k][3] + r[3]>>

\* resultDicts.commands && k in resultDicts.commands
hasCommand(resultDicts, k) ==
  Has(resultDicts, "commands") /\ Has(resultDicts["commands"], k)

\* resultDicts.commands && resultDicts.commands.session == b
sessionIs(resultDicts, b) ==
  hasCommand(resultDicts, "session") /\ resultDicts["commands"]["session"] = b

\* pushRow with the `else push(null)` branch left out
pushRow_skipMissing(entry, sensordata, now) ==
  [label \in DOMAIN entry |->
     IF label \in {"sensortagID", "sessionTimeStamp"} THEN entry[label]
     ELSE IF label = "timeStamp" /\ ~Has(sensordata, label)
       THEN Append(entry[label], <<now - entry["sessionTimeStamp"]>>)
     ELSE IF Has(sensordata, label) THEN Append(entry[label], sensordata[label])
     ELSE entry[label]]

\* the loop that pushes one row into every column of a session buffer
pushRow(entry, sensordata, now) ==
  [label \in DOMAIN entry |->
     IF label \in {"sensortagID", "sessionTimeStamp"} THEN entry[label]
     ELSE IF label = "timeStamp" /\ ~Has(sensordata, label)
       THEN Append(entry[label], <<now - entry["sessionTimeStamp"]>>)
     ELSE IF Has(sensordata, label) THEN Append(entry[label], sensordata[label])
     ELSE Append(entry[label], null)]

\* sessionStart that leaves a session that is already open alone
sessionStart_keepOpen(sd, addr, resultDicts, now) ==
  IF sessionIs(resultDicts, TRUE) /\ ~Has(sd, addr)
  THEN Put(sd, addr, makeDataEntry(addr, now))
  ELSE sd

\* a session start that replaces the whole of sessionData
sessionStart_resetAll(sd, addr, resultDicts, now) ==
  IF sessionIs(resultDicts, TRUE)
  THEN Put(EmptyObj, addr, makeDataEntry(addr, now))
  ELSE sd

\* "Session start": sessionData after the block
sessionStart(sd, addr, resultDicts, now) ==
  IF sessionIs(resultDicts, TRUE)
  THEN Put(sd, addr, makeDataEntry(addr, now))
  ELSE sd

\* addSensordata with the capacity test written > instead of >=
addSensordata_offByOne(sd, addr, resultDicts, now) ==
  IF ~Has(resultDicts, "sensordata") THEN [error |-> NoError, sessionData |-> sd]
  ELSE IF ~Has(sd, addr)
    THEN [error |-> "Error: Sensor data received while no session has been started.",
          sessionData |-> sd]
  ELSE IF Len(sd[addr]["timeStamp"]) > maxSessionRows
    THEN [error |-> "Error: Sensor data session is full", sessionData |-> sd]
  ELSE [error |-> NoError,
        sessionData |-> Put(sd, addr, pushRow(sd[addr], resultDicts["sensordata"], now))]

\* addSensordata with the capacity test made before the test for sensor data
addSensordata_fullFirst(sd, addr, resultDicts, now) ==
  IF Has(sd, addr) /\ Len(sd[addr]["timeStamp"]) >= maxSessionRows
    THEN [error |-> "Error: Sensor data session is full", sessionData |-> sd]
  ELSE IF ~Has(resultDicts, "sensordata") THEN [error |-> NoError, sessionData |-> sd]
  ELSE IF ~Has(sd, addr)
    THEN [error |-> "Error: Sensor data received while no session has been started.",
          sessionData |-> sd]
  ELSE [error |-> NoError,
        sessionData |-> Put(sd, addr, pushRow(sd[addr], resultDicts["sensordata"], now))]

\* "Add sensordata to the sessionData": [error, sessionData] after the block
addSensordata(sd, addr, resultDicts, now) ==
  IF ~Has(resultDicts, "sensordata") THEN [error |-> NoError, sessionData |-> sd]
  ELSE IF ~Has(sd, addr)
    THEN [error |-> "Error: Sensor data received while no session has been started.",
          sessionData |-> sd]
  ELSE IF Len(sd[addr]["timeStamp"]) >= maxSessionRows
    THEN [error |-> "Error: Sensor data session is full", sessionData |-> sd]
  ELSE [error |-> NoError,
        sessionData |-> Put(sd, addr, pushRow(sd[addr], resultDicts["sensordata"], now))]

\* replyPing that leaves the receiver address out of the write request
replyPing_broadcast(addr, resultDicts) ==
  IF hasCommand(resultDicts, "ping") /\ resultDicts["commands"]["ping"] # <<>>
  THEN <<uartWrite([str |-> resultDicts["commands"]["ping"]], TRUE)>>
  ELSE <<>>

\* "Reply to ping with pong": the uartWrite calls of the block
replyPing(addr, resultDicts) ==
  IF hasCommand(resultDicts, "ping") /\ resultDicts["commands"]["ping"] # <<>>
  THEN <<uartWrite([addr |-> addr, str |-> resultDicts["commands"]["ping"]], TRUE)>>
  ELSE <<>>

\* sessionEnd without the `delete sessionData[addr]` after the send
sessionEnd_keepBuffer(sd, addr, resultDicts) ==
  IF sessionIs(resultDicts, FALSE)
  THEN IF Has(sd, addr)
       THEN IF Len(sd[addr]["timeStamp"]) = 0
            THEN [error |-> "Error: The session was empty. It will not be sent.",
                  sessionData |-> sd, sent |-> <<>>]
            ELSE [error |-> NoError, sessionData |-> sd,
                  sent |-> <<[topic |-> "sensordata",
                              msg |-> Delete(sd[addr], "sessionTimeStamp")]>>]
       ELSE [error |-> "Error: No session was started. Session data send prevented.",
             sessionData |-> sd, sent |-> <<>>]
  ELSE [error |-> NoError, sessionData |-> sd, sent |-> <<>>]

\* sessionEnd with the commented-out `delete sessionData[addr]` of the empty
\* session put back
sessionEnd_dropEmpty(sd, addr, resultDicts) ==
  IF sessionIs(resultDicts, FALSE)
  THEN IF Has(sd, addr)
       THEN IF Len(sd[addr]["timeStamp"]) = 0
            THEN [error |-> "Error: The session was empty. It will not be sent.",
                  sessionData |-> Delete(sd, addr), sent |-> <<>>]
            ELSE [error |-> NoError, sessionData |-> Delete(sd, addr),
                  sent |-> <<[topic |-> "sensordata",
                              msg |-> Delete(sd[addr], "sessionTimeStamp")]>>]
       ELSE [error |-> "Error: No session was started. Session data send prevented.",
             sessionData |-> sd, sent |-> <<>>]
  ELSE [error |-> NoError, sessionData |-> sd, sent |-> <<>>]

\* sessionEnd without the else branch of `if (addr in sessionData)`
sessionEnd_silent(sd, addr, resultDicts) ==
  IF sessionIs(resultDicts, FALSE) /\ Has(sd, addr)
  THEN IF Len(sd[addr]["timeStamp"]) = 0
       THEN [error |-> "Error: The session was empty. It will not be sent.",
             sessionData |-> sd, sent |-> <<>>]
       ELSE [error |-> NoError, sessionData |-> Delete(sd, addr),
             sent |-> <<[topic |-> "sensordata",
                         msg |-> Delete(sd[addr], "sessionTimeStamp")]>>]
  ELSE [error |-> NoError, sessionData |-> sd, sent |-> <<>>]

\* "Session end": [error, sessionData, sent] after the block
sessionEnd(sd, addr, resultDicts) ==
  IF sessionIs(resultDicts, FALSE)
  THEN IF Has(sd, addr)
       THEN IF Len(sd[addr]["timeStamp"]) = 0
            THEN [error |-> "Error: The session was empty. It will not be sent.",
                  sessionData |-> sd, sent |-> <<>>]
            ELSE [error |-> NoError, sessionData |-> Delete(sd, addr),
                  sent |-> <<[topic |-> "sensordata",
                              msg |-> Delete(sd[addr], "sessionTimeStamp")]>>]
       ELSE [error |-> "Error: No session was started. Session data send prevented.",
             sessionData |-> sd, sent |-> <<>>]
  ELSE [error |-> NoError, sessionData |-> sd, sent |-> <<>>]

\* keepSent that spares the sensor data of the frame from the deletion
keepSent_sensordata(resultDicts, sends) ==
  [t \in {x \in DOMAIN resultDicts : includes(sends, x) \/ x = "sensordata"
                                      \/ ~includes(topics, x)} |-> resultDicts[t]]

\* for (const topic of gateway.topics) if (!sends.includes(topic)) delete resultDicts[topic]
keepSent(resultDicts, sends) ==
  [t \in {x \in DOMAIN resultDicts : includes(sends, x)
                                      \/ ~includes(topics, x)} |-> resultDicts[t]]

\* comm.sendMsgs(msg): the publishes made for a resolved frame
RECURSIVE sendMsgsFrom(_, _, _)
sendMsgsFrom(msg, k, now) ==
  IF k > Len(topics) THEN <<>>
  ELSE LET topic == topics[k]
           out == IF Has(msg, topic) /\ topic = "event"
                  THEN LET labels == <<"eat", "exercise", "pet">>
                           one(j) ==
                             IF msg[topic]["tamaActions"][j] = 0 THEN <<>>
                             ELSE << [topic |-> "event",
                                      msg |-> [sensortagID |-> msg[topic]["sensortagID"],
                                               event |-> labels[j],
                                               timeStamp |-> [toJSON |-> now]]],
                                     [topic |-> "tamagotchiUpdate",
                                      msg |-> [sensortagID |-> msg[topic]["sensortagID"],
                                               event |-> labels[j],
                                               increasedBy |-> msg[topic]["tamaActions"][j]]] >>
                       IN  one(1) \o one(2) \o one(3)
                  ELSE IF Has(msg, topic)
                  THEN << [topic |-> topic,
                           msg |-> IF Has(msg[topic], "timeStamp") THEN msg[topic]
                                   ELSE Put(msg[topic], "timeStamp", [toJSON |-> now])] >>
                  ELSE <<>>
       IN  out \o sendMsgsFrom(msg, k + 1, now)

sendMsgs(msg, now) == sendMsgsFrom(msg, 1, now)

\* settle with the ping answered after the session end: a refused session end
\* returns before the reply is queued
settle_pingLast(addr, rd, sends, st2, jobs, st3, now) ==
  IF st2.error # NoError
  THEN [error |-> st2.error, sessionData |-> st2.sessionData, jobs |-> <<>>,
        sent |-> <<>>, addr |-> addr, resultDicts |-> rd, resolved |-> EmptyObj]
  ELSE IF st3.error # NoError
  THEN [error |-> st3.error, sessionData |-> st3.sessionData, jobs |-> <<>>,
        sent |-> <<>>, addr |-> addr, resultDicts |-> rd, resolved |-> EmptyObj]
  ELSE [error |-> NoError, sessionData |-> st3.sessionData, jobs |-> jobs,
        sent |-> st3.sent \o sendMsgs(keepSent(rd, sends), now),
        addr |-> addr, resultDicts |-> rd, resolved |-> keepSent(rd, sends)]

\* What the promise of unwrap settles with once the blocks have run, in the
\* order of the code: a refusal of the sensor data returns before the ping is
\* answered, a refusal of the session end returns after it.
settle(addr, rd, sends, st2, jobs, st3, now) ==
  IF st2.error # NoError
  THEN [error |-> st2.error, sessionData |-> st2.sessionData, jobs |-> <<>>,
        sent |-> <<>>, addr |-> addr, resultDicts |-> rd, resolved |-> EmptyObj]
  ELSE IF st3.error # NoError
  THEN [error |-> st3.error, sessionData |-> st3.sessionData, jobs |-> jobs,
        sent |-> <<>>, addr |-> addr, resultDicts |-> rd, resolved |-> EmptyObj]
  ELSE [error |-> NoError, sessionData |-> st3.sessionData, jobs |-> jobs,
        sent |-> st3.sent \o sendMsgs(keepSent(rd, sends), now),
        addr |-> addr, resultDicts |-> rd, resolved |-> keepSent(rd, sends)]

\* The `then` of readDataTokens in unwrap, run on what readDataTokens settled
\* with (tk), in the current state, with the clock reading `now`: what the
\* promise of unwrap settles with and everything the handler did before.
\*   error       NoError when the promise resolves, else the rejection
\*   sessionData the session buffers afterwards
\*   jobs        the entries added to the outbound queue, in order
\*   sent        the publishes (comm.send), in order
\*   addr        the sender address (NoAddr if tokenization failed)
\*   resultDicts the decoded fields as the handler saw them
\*   resolved    what the promise resolves with, handed to comm.sendMsgs
\* sd is sessionData when the handler runs.
unwrapHandlerIn(sd, tk, now) ==
  IF tk.error # NoError
  THEN [error |-> tk.error, sessionData |-> sd, jobs |-> <<>>, sent |-> <<>>,
        addr |-> NoAddr, resultDicts |-> EmptyObj, resolved |-> EmptyObj]
  ELSE
  LET addr == tk.addr
      hasTama == Has(tk.resultDicts, "tamaActions")
      rd == IF hasTama
            THEN Put(tk.resultDicts, "event",
                     Put(tk.resultDicts["event"], "tamaActions",
                         sumActions(tk.resultDicts["tamaActions"],
                                    DOMAIN tk.resultDicts["tamaActions"])))
            ELSE tk.resultDicts
      sends == IF hasTama THEN Append(tk.sends, "event") ELSE tk.sends
      sd1 == sessionStart(sd, addr, rd, now)
      st2 == addSensordata(sd1, addr, rd, now)
      jobs == replyPing(addr, rd)
      st3 == sessionEnd(st2.sessionData, addr, rd)
  IN  settle(addr, rd, sends, st2, jobs, st3, now)

\* the handler run in the current state
unwrapHandler(tk, now) == unwrapHandlerIn(sessionData, tk, now)

(* ------------------------------- frames -------------------------------- *)
T_id15  == <<"id", <<"1", "5">>>>
T_id23  == <<"id", <<"2", "3">>>>
T_start == <<"session", S_start>>
T_end   == <<"session", S_end>>
T_ping  == <<"ping", <<>>>>
T_temp  == <<"temp", <<"2", "7">>>>
T_time  == <<"time", <<"7">>>>
T_light == <<"light", <<"2", "0", "8">>>>
T_EAT   == <<"EAT", <<"8">>>>
T_evnt  == <<"evnt", <<"U", "P">>>>

\* the tokens frames are built from
Tokens == {T_id15, T_id23, T_start, T_end, T_ping, T_temp, T_evnt}

\* the sender addresses the ServerTag reports (0x0015, 0x0023)
SenderAddrs == {21, 35}

TokenSeqs(toks, lo, hi) == UNION {[1..n -> toks] : n \in lo..hi}

\* n.toString(16), at least one digit
RECURSIVE toString16(_)
toString16(n) ==
  IF n < 16 THEN <<HexChar(n)>> ELSE Append(toString16(n \div 16), HexChar(n % 16))

\* readDataToString(data)[1], as tokens: in server use the two address bytes
\* of the frame are turned into a leading "id:xxxx,"
readDataToString(server, data) ==
  IF ~server THEN data.tokens
  ELSE <<<<"id", padSlice4(toString16(data.senderAddr))>>>> \o data.tokens

\* what the serial parser can deliver: the text of a frame and, in server
\* use, the sender address in its first two bytes
Frames(server) ==
  IF server
  THEN {[senderAddr |-> a, tokens |-> f] :
          a \in SenderAddrs, f \in TokenSeqs(Tokens, 0, MaxTokens - 1)}
  ELSE {[tokens |-> f] : f \in TokenSeqs(Tokens, 1, MaxTokens)}

\* what readDataTokens settles with, over all the frames that can be delivered
TokenizedServer == {readDataTokens(readDataToString(TRUE, data)) : data \in Frames(TRUE)}
TokenizedPeer == {readDataTokens(readDataToString(FALSE, data)) : data \in Frames(FALSE)}
Tokenized == IF isServer THEN TokenizedServer ELSE TokenizedPeer

\* frames of one sender whose rows differ: with and without a sensor value,
\* with and without an explicit time stamp
RowTokens == {T_start, T_end, T_temp, T_time}
RowFrames == {[tokens |-> <<T_id15>> \o f] : f \in TokenSeqs(RowTokens, 0, MaxTokens - 1)}
TokenizedRows == {readDataTokens(readDataToString(FALSE, data)) : data \in RowFrames}

\* the example messages of the README ("Format for received messages"), the
\* temperature and the texts shortened, and the one-command messages of its
\* key table for the sender 0015
README_EAT      == <<<<"id", <<"2", "3">>>>, T_EAT>>
README_PET      == <<<<"id", <<"2", "3">>>>, <<"PET", <<"2">>>>, <<"EXERCISE", <<"1">>>>>>
README_EXERCISE == <<<<"id", <<"1", "2", "3">>>>, <<"EXERCISE", <<"2">>>>, T_ping>>
README_MSG      == <<<<"id", <<"4", "2">>>>, <<"MSG1", <<"H">>>>, <<"MSG2", <<"S">>>>>>
README_session  == <<T_id15, T_start, T_temp, T_end, T_ping>>
README_ACTIVATE == <<<<"id", <<"1", "2", "3", "4">>>>,
                     <<"ACTIVATE", <<"1", ";", "2", ";", "3">>>>, T_light>>
Documented ==
  {README_EAT, README_PET, README_EXERCISE, README_MSG, README_session, README_ACTIVATE,
   <<T_id15, T_start>>, <<T_id15, T_end>>, <<T_id15, T_temp>>, <<T_id15, T_ping>>}

\* a documented message as the parser delivers it: in server use the ServerTag
\* has put the sender's address in front of the text
asData(server, tokens) ==
  IF server THEN [senderAddr |-> parseHex(tokens[1][2]), tokens |-> Tail(tokens)]
  ELSE [tokens |-> tokens]

(* ------------------------------- actions ------------------------------- *)
\* portFinder.js:45-51 and uart.js:6 as the modules leave them when loaded
NoDiscovery ==
  /\ finder = [count |-> 0, n |-> 0, ok |-> <<>>, all |-> <<>>, blacklist |-> EmptyObj]
  /\ pollers = <<>>
  /\ discovery = [started |-> 0, pending |-> FALSE]
  /\ responded = FALSE
  /\ transports = <<>>
  /\ timers = {}
  /\ timeouts = EmptyObj
  /\ autofind = TRUE
  /\ hbTime = 0
  /\ clock = 0

Init ==
  /\ isServer \in BOOLEAN
  /\ port = "undefined"
  /\ sessionData = EmptyObj
  /\ uartSendBuffer = <<>>
  /\ ev = [type |-> "init"]
  /\ rx = <<>>
  /\ NoDiscovery

\* main(path): the port is created and opened, the parser installed; called
\* at the start and again by the "close" handler after its delay
main ==
  /\ port # "open"
  /\ port' = "open"
  /\ hbTime' = IF isServer THEN clock ELSE hbTime
  /\ ev' = [type |-> "main"]
  /\ UNCHANGED <<finder, pollers, discovery, responded, transports, timers, timeouts, clock,
                 autofind,
                 isServer, sessionData, uartSendBuffer, rx>>

\* parser.on("data"): reader.unwrap(data).then(comm.sendMsgs), for a frame
\* that readDataTokens settles with tk
parserData(tk, now) ==
  /\ port = "open"
  /\ LET r == unwrapHandler(tk, now)
     IN  /\ Len(uartSendBuffer) + Len(r.jobs) <= MaxQueue
         /\ sessionData' = r.sessionData
         /\ uartSendBuffer' = uartSendBuffer \o r.jobs
         /\ ev' = [type |-> "data", error |-> r.error, addr |-> r.addr,
                   resultDicts |-> r.resultDicts, jobs |-> r.jobs, sent |-> r.sent,
                   now |-> now,
                   before |-> IF Has(sessionData, r.addr)
                              THEN <<sessionData[r.addr]>> ELSE <<>>]
  /\ UNCHANGED <<discoveryVars, isServer, port>>

\* uartSender without the test of gateway.port
uartSender_anyPort ==
  /\ uartSendBuffer # <<>>
  /\ uartSendBuffer' = Tail(uartSendBuffer)
  /\ ev' = [type |-> "write", txBuf |-> Head(uartSendBuffer).txBuf,
            msg |-> <<>>, addr |-> <<>>]
  /\ UNCHANGED <<discoveryVars, isServer, port, sessionData, rx>>

\* uartSender taking the job enqueued last
uartSender_lifo ==
  /\ ~(uartSendBuffer = <<>> \/ port = "undefined")
  /\ uartSendBuffer' = SubSeq(uartSendBuffer, 1, Len(uartSendBuffer) - 1)
  /\ ev' = [type |-> "write", txBuf |-> uartSendBuffer[Len(uartSendBuffer)].txBuf,
            msg |-> <<>>, addr |-> <<>>]
  /\ UNCHANGED <<discoveryVars, isServer, port, sessionData, rx>>

\* the sender address and the text uartSender reads back from a queued buffer
txAddr(txBuf) ==
  IF isServer THEN padSlice4(toString16(txBuf[1] + 256 * txBuf[2])) ELSE <<>>
txMsg(txBuf) ==
  LET from == IF isServer THEN 3 ELSE 1
      RECURSIVE text(_)
      text(i) == IF i > Len(txBuf) THEN <<>>
                 ELSE IF txBuf[i] = 0 THEN text(i + 1)
                 ELSE <<CodeChar(txBuf[i])>> \o text(i + 1)
  IN  text(from)

\* uartSender(): one pacing tick
uartSender ==
  /\ ~(uartSendBuffer = <<>> \/ port = "undefined")
  /\ uartSendBuffer' = Tail(uartSendBuffer)
  /\ ev' = [type |-> "write", txBuf |-> Head(uartSendBuffer).txBuf,
            msg |-> txMsg(Head(uartSendBuffer).txBuf),
            addr |-> txAddr(Head(uartSendBuffer).txBuf)]
  /\ UNCHANGED <<discoveryVars, isServer, port, sessionData, rx>>

\* the clock reading of the specifications that do not let time pass
Epoch == 0

\* a frame arrives: any frame of two senders (the frame itself is not recorded)
Receive == \E tk \in Tokenized : parserData(tk, Epoch) /\ rx' = <<>>

\* a documented message arrives, and is recorded
ReceiveDocumented ==
  \E tokens \in Documented :
    /\ parserData(readDataTokens(readDataToString(isServer, asData(isServer, tokens))), Epoch)
    /\ rx' = tokens

\* a frame of sensor rows arrives from the connected SensorTag 0015, at any
\* clock reading
ReceiveRows == \E tk \in TokenizedRows, now \in 0..MaxTime : parserData(tk, now) /\ rx' = <<>>

Next == main \/ Receive \/ uartSender

Spec == Init /\ [][Next]_vars

NextReadme == main \/ ReceiveDocumented \/ uartSender

SpecReadme == Init /\ [][NextReadme]_vars

\* these frames carry no ping, so nothing is queued for uartSender to write
NextRows == main \/ ReceiveRows

\* the start-up without the -s option (gateway.isServer = false)
InitPeer == Init /\ isServer = FALSE

SpecRows == InitPeer /\ [][NextRows]_vars

(* ------------------------- malformed frames ---------------------------- *)
\* a temperature that Number() does not read
T_tempX == <<"temp", <<"x">>>>

\* frames of good and bad tokens
FieldTokens == {T_id15, T_start, T_ping, T_temp, T_evnt, T_tempX}
FieldFrames(server) ==
  IF server
  THEN {[senderAddr |-> a, tokens |-> f] :
          a \in SenderAddrs, f \in TokenSeqs(FieldTokens, 0, MaxTokens - 1)}
  ELSE {[tokens |-> f] : f \in TokenSeqs(FieldTokens, 1, MaxTokens)}

\* what is wrong with the text given to readDataTokens: a token whose name is
\* not a short name of the schema, a token whose value its decoder rejects,
\* no id token at all
unknownName(tokens) == \E i \in 1..Len(tokens) : findType(tokens[i][1]) = 0
rejectedValue(tokens) ==
  \E i \in 1..Len(tokens) :
    findType(tokens[i][1]) # 0 /\ ~fun(tokens[i][1], tokens[i][2]).ok
noId(tokens) == \A i \in 1..Len(tokens) : tokens[i][1] # "id"

\* what readDataTokens settles with for each frame, and what is wrong with it
Inspected(server) ==
  {[faults |-> <<unknownName(t), rejectedValue(t), noId(t)>>, tk |-> readDataTokens(t)] :
     t \in {readDataToString(server, data) : data \in FieldFrames(server)}}
InspectedServer == Inspected(TRUE)
InspectedPeer == Inspected(FALSE)

\* a frame of good and bad tokens arrives; what is wrong with it is recorded
ReceiveInspected ==
  \E x \in IF isServer THEN InspectedServer ELSE InspectedPeer :
    parserData(x.tk, Epoch) /\ rx' = x.faults

NextFields == main \/ ReceiveInspected \/ uartSender

SpecFields == Init /\ [][NextFields]_vars

(* --------------------------- forwarded topics -------------------------- *)
T_MSG1 == <<"MSG1", <<"H">>>>

\* frames of one sender that mix session commands, sensor data, a tamagotchi
\* action and a text
TopicTokens == {T_start, T_end, T_temp, T_EAT, T_MSG1}
TopicFrames == {[tokens |-> <<T_id15>> \o f] : f \in TokenSeqs(TopicTokens, 0, MaxTokens - 1)}
TokenizedTopics == {readDataTokens(readDataToString(FALSE, data)) : data \in TopicFrames}

ReceiveTopics ==
  \E tk \in TokenizedTopics, now \in {Epoch, MaxTime} : parserData(tk, now) /\ rx' = <<>>

\* these frames carry no ping, so nothing is queued for uartSender to write
NextTopics == main \/ ReceiveTopics

SpecTopics == InitPeer /\ [][NextTopics]_vars

(* ------------------------------ id values ------------------------------ *)
\* id values as a SensorTag can write them: short, padded by the sender in
\* part or in full, too long, empty, not hexadecimal
IdValues == {<<"2", "3">>, <<"0", "2", "3">>, <<"0", "0", "2", "3">>, <<"1", "5">>,
             <<"a", "b", "c", "d">>, <<"0", "0", "0", "2", "3">>, <<"1", "2", "3", "4", "5">>,
             <<>>, <<"g">>}

\* frames of one SensorTag on the UART: its id, then session commands and
\* sensor data
IdFrames ==
  {[id |-> v, tokens |-> <<<<"id", v>>>> \o f] :
     v \in IdValues, f \in TokenSeqs({T_start, T_end, T_temp}, 0, MaxTokens - 1)}
TokenizedIds ==
  {[id |-> data.id, tk |-> readDataTokens(readDataToString(FALSE, data))] : data \in IdFrames}

\* a frame arrives; the id value it was sent with is recorded
ReceiveIds == \E x \in TokenizedIds : parserData(x.tk, Epoch) /\ rx' = x.id

\* these frames carry no ping, so nothing is queued for uartSender to write
NextIds == main \/ ReceiveIds

SpecIds == InitPeer /\ [][NextIds]_vars

(* ------------------------ did-you-mean suggestion ---------------------- *)
\* the characters of the short names of the schema
spell(shortName) ==
  CASE shortName = "time" -> <<"t", "i", "m", "e">>
    [] shortName = "id" -> <<"i", "d">>
    [] shortName = "ping" -> <<"p", "i", "n", "g">>
    [] shortName = "session" -> <<"s", "e", "s", "s", "i", "o", "n">>
    [] shortName = "EAT" -> <<"E", "A", "T">>
    [] shortName = "EXERCISE" -> <<"E", "X", "E", "R", "C", "I", "S", "E">>
    [] shortName = "PET" -> <<"P", "E", "T">>
    [] shortName = "ACTIVATE" -> <<"A", "C", "T", "I", "V", "A", "T", "E">>
    [] shortName = "MSG1" -> <<"M", "S", "G", "1">>
    [] shortName = "MSG2" -> <<"M", "S", "G", "2">>
    [] shortName = "temp" -> <<"t", "e", "m", "p">>
    [] shortName = "humid" -> <<"h", "u", "m", "i", "d">>
    [] shortName = "press" -> <<"p", "r", "e", "s", "s">>
    [] shortName = "light" -> <<"l", "i", "g", "h", "t">>
    [] shortName = "ax" -> <<"a", "x">>
    [] shortName = "ay" -> <<"a", "y">>
    [] shortName = "az" -> <<"a", "z">>
    [] shortName = "gx" -> <<"g", "x">>
    [] shortName = "gy" -> <<"g", "y">>
    [] shortName = "gz" -> <<"g", "z">>

\* gateway.dataTypes.map(d => d.shortName)
shortNames == [i \in 1..Len(dataTypes) |-> spell(dataTypes[i].shortName)]

\* String.prototype.toLowerCase
upperCase == <<"A", "B", "C", "D", "E", "F", "G", "H", "I", "J", "K", "L", "M",
               "N", "O", "P", "Q", "R", "S", "T", "U", "V", "W", "X", "Y", "Z">>
lowerCase == <<"a", "b", "c", "d", "e", "f", "g", "h", "i", "j", "k", "l", "m",
               "n", "o", "p", "q", "r", "s", "t", "u", "v", "w", "x", "y", "z">>
toLowerCase(str) ==
  [k \in 1..Len(str) |->
     IF \E u \in 1..Len(upperCase) : upperCase[u] = str[k]
     THEN lowerCase[CHOOSE u \in 1..Len(upperCase) : upperCase[u] = str[k]]
     ELSE str[k]]

\* Math.min of three numbers
min3(a, b, c) == IF a <= b /\ a <= c THEN a ELSE IF b <= c THEN b ELSE c

\* column j of the table d of levenshtein, rows 0..m as a sequence of m + 1
\* entries, computed from column j - 1 (prev) from row 1 up
RECURSIVE levColumn(_, _, _, _, _)
levColumn(str1, str2, j, prev, cur) ==
  LET i == Len(cur)
  IN  IF i > Len(str1) THEN cur
      ELSE LET cost == IF str1[i] = str2[j] THEN 0 ELSE 1
           IN  levColumn(str1, str2, j, prev,
                         Append(cur, min3(cur[i] + 1, prev[i + 1] + 1, prev[i] + cost)))

RECURSIVE levColumns(_, _, _, _)
levColumns(str1, str2, j, prev) ==
  IF j > Len(str2) THEN prev
  ELSE levColumns(str1, str2, j + 1, levColumn(str1, str2, j, prev, <<j>>))

\* levenshtein(str1, str2)
levenshtein(str1, str2) ==
  LET m == Len(str1)
      n == Len(str2)
  IN  IF n = 0 THEN m
      ELSE IF m = 0 THEN n
      ELSE levColumns(str1, str2, 1, [i \in 1..(m + 1) |-> i - 1])[m + 1]

\* closestMatch that takes the last of the suggestions at the same distance
RECURSIVE closestMatch_lastOnTies(_, _, _, _)
closestMatch_lastOnTies(str, suggestions, k, best) ==
  IF k > Len(suggestions) THEN best.bestMatch
  ELSE LET dist == levenshtein(str, suggestions[k])
       IN  closestMatch_lastOnTies(str, suggestions, k + 1,
             IF dist <= best.bestNum
             THEN [bestMatch |-> suggestions[k], bestNum |-> dist] ELSE best)

\* closestMatch(str, suggestions), from suggestion k on with the best so far
\* (bestMatch is undefined, here <<>>, until a suggestion is nearer than 100)
RECURSIVE closestMatch(_, _, _, _)
closestMatch(str, suggestions, k, best) ==
  IF k > Len(suggestions) THEN best.bestMatch
  ELSE LET dist == levenshtein(str, suggestions[k])
       IN  closestMatch(str, suggestions, k + 1,
             IF dist < best.bestNum
             THEN [bestMatch |-> suggestions[k], bestNum |-> dist] ELSE best)

\* the suggestion in the rejection of readDataTokens for an unknown label
didYouMean(label) ==
  closestMatch(toLowerCase(label), shortNames, 1, [bestMatch |-> <<>>, bestNum |-> 100])

\* the labels tried: every string of up to MaxLabel of these characters that is
\* not a short name, and the label of the documented example
LabelChars == {"a", "x", "e", "t", "E"}
L_evnt == <<"e", "v", "n", "t">>
Labels ==
  {l \in UNION {[1..n -> LabelChars] : n \in 1..MaxLabel} \cup {L_evnt} :
     \A k \in 1..Len(shortNames) : shortNames[k] # l}

\* readDataTokens is given a token whose label, rx, is unknown
InitSuggest ==
  /\ isServer = FALSE
  /\ port = "open"
  /\ sessionData = EmptyObj
  /\ uartSendBuffer = <<>>
  /\ ev = [type |-> "init"]
  /\ rx \in Labels
  /\ NoDiscovery

\* the rejection is made: the label and the suggestion in it
unknownLabel ==
  /\ ev.type = "init"
  /\ ev' = [type |-> "unknown", label |-> rx, suggestion |-> didYouMean(rx)]
  /\ UNCHANGED <<discoveryVars, isServer, port, sessionData, uartSendBuffer, rx>>

SpecSuggest == InitSuggest /\ [][unknownLabel]_vars

(* -------------------------- escaped buffers ---------------------------- *)
\* the characters of decodeEscapedBuffer
ESCAPECHAR  == 240
STANDINCHAR == 241
EOMCHAR     == 242

\* a flush that writes every counted escape character twice
escapes_doubled(n) == [i \in 1..(2 * n) |-> ESCAPECHAR]

\* n escape characters
escapes(n) == [i \in 1..n |-> ESCAPECHAR]

\* what a stand-in character after escLen escape characters decodes to, with
\* the halving dropped
standIn_unhalved(escLen) ==
  escapes(escLen) \o <<IF escLen % 2 = 1 THEN EOMCHAR ELSE STANDINCHAR>>

\* standIn with the test of the parity turned round
standIn_evenIsEnd(escLen) ==
  escapes(escLen \div 2) \o <<IF escLen % 2 = 0 THEN EOMCHAR ELSE STANDINCHAR>>

\* what a stand-in character after escLen escape characters decodes to:
\* escLen >> 1 escape characters, then the end-of-message character if
\* escLen is odd and the stand-in character if it is even
standIn(escLen) ==
  escapes(escLen \div 2) \o <<IF escLen % 2 = 1 THEN EOMCHAR ELSE STANDINCHAR>>

\* the loop of decodeEscapedBuffer over the bytes b still to read, with
\* escLen escape characters counted and out written so far, and the flush of
\* the escape characters that end the buffer
RECURSIVE decodeLoop(_, _, _)
decodeLoop(b, escLen, out) ==
  IF b = <<>> THEN out \o escapes(escLen)
  ELSE LET c == Head(b)
       IN  IF c = ESCAPECHAR THEN decodeLoop(Tail(b), escLen + 1, out)
           ELSE IF c = STANDINCHAR THEN decodeLoop(Tail(b), 0, out \o standIn(escLen))
           ELSE decodeLoop(Tail(b), 0, out \o escapes(escLen) \o <<c>>)

\* decodeEscapedBuffer(b)
decodeEscapedBuffer(b) == decodeLoop(b, 0, <<>>)

\* the bytes tried: the three characters of the scheme and one plain byte
Bytes == {ESCAPECHAR, STANDINCHAR, EOMCHAR, 97}
Buffers(n) == UNION {[1..k -> Bytes] : k \in 0..n}

\* a buffer has arrived from the parser
InitBuffer ==
  /\ isServer = FALSE
  /\ port = "open"
  /\ sessionData = EmptyObj
  /\ uartSendBuffer = <<>>
  /\ ev = [type |-> "init"]
  /\ rx \in Buffers(MaxBytes)
  /\ NoDiscovery

\* unwrap, first statement: data = util.decodeEscapedBuffer(data)
unwrapDecode ==
  /\ ev.type = "init"
  /\ ev' = [type |-> "decoded", data |-> decodeEscapedBuffer(rx)]
  /\ UNCHANGED <<discoveryVars, isServer, port, sessionData, uartSendBuffer, rx>>

SpecDecode == InitBuffer /\ [][unwrapDecode]_vars

(* --------------------- the console and the timers ---------------------- *)
\* gateway.port.on("close"): the transport closed (unplugged, closed by the
\* challenge timeout or by ".reconnect"); gateway.port keeps the closed port
\* until main assigns a new one
portClose ==
  /\ port = "open"
  /\ port' = "closed"
  /\ ev' = [type |-> "close"]
  /\ UNCHANGED <<discoveryVars, isServer, sessionData, uartSendBuffer, rx>>

\* /[0-9a-f]{4}#.+/i.test(line)
addressed(line) ==
  \E i \in 1..(Len(line) - 5) :
    /\ \A j \in i..(i + 3) : line[j] \in HexDigits
    /\ line[i + 4] = "#"

\* line.split(/#(.+)/, 2): the text before the first "#" that has text after
\* it, and that text
splitHash(line) ==
  LET h == CHOOSE i \in 1..(Len(line) - 1) :
             line[i] = "#" /\ \A j \in 1..(i - 1) : line[j] # "#"
  IN  <<SubSeq(line, 1, h - 1), SubSeq(line, h + 1, Len(line))>>

\* what consoleHandler hands to uart.uartWrite for a line that does not
\* begin with ".": nothing (<<>>) for an empty line in server use
consoleMsg(line) ==
  IF ~isServer THEN <<[internal |-> TRUE, str |-> line]>>
  ELSE IF addressed(line)
  THEN <<[addr |-> splitHash(line)[1], str |-> splitHash(line)[2]]>>
  ELSE IF Len(line) > 0 THEN <<[addr |-> <<"f", "f", "f", "f">>, str |-> line]>>
  ELSE <<>>

\* consoleHandler(line), for a line typed at any moment
consoleHandler(line) ==
  /\ Len(uartSendBuffer) < MaxJobs
  /\ consoleMsg(line) # <<>>
  /\ uartSendBuffer' = Append(uartSendBuffer, uartWrite(consoleMsg(line)[1], TRUE))
  /\ ev' = [type |-> "uartWrite", msg |-> consoleMsg(line)[1], publish |-> TRUE]
  /\ UNCHANGED <<discoveryVars, isServer, port, sessionData, rx>>

\* the test of uart.heartbeat with no upper limit
possiblyCrashed_noUpperLimit(now, hb) == heartbeatInterval * 3 < 2 * (now - hb)

\* the test of uart.heartbeat: heartbeatInterval*1.5 < now - uart.hbTime and
\* now - uart.hbTime < heartbeatInterval*2.5
possiblyCrashed(now, hb) ==
  /\ heartbeatInterval * 3 < 2 * (now - hb)
  /\ 2 * (now - hb) < heartbeatInterval * 5

\* the test of the heartbeat frame in reader.unwrap:
\* heartbeatInterval*1.5 < now - uart.hbTime
reconnected(now, hb) == heartbeatInterval * 3 < 2 * (now - hb)

\* uart.heartbeat(), called by the interval main sets in server use; the
\* interval is cleared when the "close" handler calls main again; the
\* warning is the message "The ServerTag has possibly crashed!"
heartbeat ==
  /\ isServer /\ port # "undefined"
  /\ Len(uartSendBuffer) < MaxJobs
  /\ LET msg == [str |-> <<"NUL", "NUL", "SOH", "H", "B">>, internal |-> TRUE]
     IN  /\ uartSendBuffer' = Append(uartSendBuffer, uartWrite(msg, FALSE))
         /\ ev' = [type |-> "uartWrite", msg |-> msg, publish |-> FALSE,
                   warning |-> possiblyCrashed(clock, hbTime)]
  /\ UNCHANGED <<discoveryVars, isServer, port, sessionData, rx>>

\* lines typed at the interface: short texts, texts with an address prefix,
\* a text longer than a buffer, the empty line
L_pong == <<"p", "o", "n", "g">>
L_go   == <<"g", "o">>
L_to15 == <<"0", "0", "1", "5", "#">> \o L_pong
L_to23 == <<"0", "0", "2", "3", "#">> \o L_go
L_long == [i \in 1..(txlength + 1) |-> IF i % 2 = 0 THEN "g" ELSE "o"]
Lines  == {L_pong, L_go, L_to15, L_to23, L_long, <<>>}

TypeLine == \E line \in Lines : consoleHandler(line)

NextConsole == main \/ portClose \/ TypeLine \/ heartbeat \/ uartSender

SpecConsole == Init /\ [][NextConsole]_vars

(* ------------------------------ heartbeat ------------------------------ *)
\* The gateway in server use with a clock: the heartbeat interval asks, the
\* ServerTag answers with the heartbeat frame or not, and SensorTags send
\* their frames.  rx records when the last frame of any kind (at) and the
\* last heartbeat frame (hb) arrived, -1 for none.
InitHeartbeat ==
  /\ isServer = TRUE
  /\ port = "undefined"
  /\ sessionData = EmptyObj
  /\ uartSendBuffer = <<>>
  /\ ev = [type |-> "init"]
  /\ rx = [at |-> -1, hb |-> -1]
  /\ NoDiscovery

\* half a heartbeat interval passes
passTime ==
  /\ clock < MaxClock
  /\ clock' = clock + 1
  /\ ev' = [type |-> "time"]
  /\ UNCHANGED <<finder, pollers, discovery, responded, transports, timers, timeouts, hbTime,
                 autofind,
                 isServer, port, sessionData, uartSendBuffer, rx>>

\* parser.on("data") with the heartbeat frame "id:fefe,\x01HB": reader.unwrap
\* stores the clock reading and resolves with nothing to send
heartbeatFrame ==
  /\ port = "open"
  /\ hbTime' = clock
  /\ ev' = [type |-> "data", heartbeat |-> TRUE, reconnected |-> reconnected(clock, hbTime)]
  /\ rx' = [at |-> clock, hb |-> clock]
  /\ UNCHANGED <<finder, pollers, discovery, responded, transports, timers, timeouts, clock,
                 autofind,
                 isServer, port, sessionData, uartSendBuffer>>

\* the frames the SensorTag 0015 sends through the ServerTag while the
\* heartbeat runs: a session start, a ping, an event
TickFrames == {[senderAddr |-> 21, tokens |-> <<t>>] : t \in {T_start, T_ping, T_evnt}}

\* parser.on("data") with a frame of a SensorTag
ReceiveAt ==
  \E data \in TickFrames :
    /\ parserData(readDataTokens(readDataToString(TRUE, data)), clock)
    /\ rx' = [at |-> clock, hb |-> rx.hb]

NextHeartbeat == main \/ passTime \/ heartbeat \/ heartbeatFrame \/ ReceiveAt \/ uartSender

SpecHeartbeat == InitHeartbeat /\ [][NextHeartbeat]_vars

(* ------------------- frames delivered back-to-back --------------------- *)
\* The stream parser emits "data" once per frame it finds in a chunk, one
\* call after the other in the same turn of the event loop; what each call
\* leaves behind is a chain of promise jobs, and the jobs of all the frames of
\* the chunk run first in, first out once the calls have returned.

\* the tokens of a frame whose name readDataTokens finds in the schema: each
\* is awaited (`await dtype.fun(...).then(...)`), the others are rejected on
\* the spot and the loop goes on
knownTokens(tokens) == Cardinality({i \in 1..Len(tokens) : findType(tokens[i][1]) # 0})

\* the promise jobs between the call of unwrap and the `then` of
\* readDataTokens: per awaited token the reaction of `then` and the
\* continuation of the loop
thenTicks(tokens) == 2 * knownTokens(tokens)

\* The job queue of one turn, run until it is empty.  A job of stage "then"
\* with left > 0 is a step of the tokenizer's loop and queues the next one;
\* with left = 0 it is the `then` of readDataTokens in unwrap, which runs the
\* session blocks on the sessionData of that moment and, when it resolves,
\* queues comm.sendMsgs; a job of stage "sendMsgs" publishes what unwrap
\* resolved with.  st collects sessionData, the queued buffers (jobs), the
\* publishes (sent) and the frame and stage of every job with an effect.
RECURSIVE runJobs(_, _, _, _)
runJobs(queue, frames, st, now) ==
  IF queue = <<>> THEN st
  ELSE
  LET job == Head(queue)
  IN  IF job.stage = "then" /\ job.left > 0
      THEN runJobs(Append(Tail(queue), [job EXCEPT !.left = @ - 1]), frames, st, now)
      ELSE IF job.stage = "then"
      THEN LET r == CHOOSE x \in {unwrapHandlerIn(st.sessionData, frames[job.frame], now)} : TRUE
               late == sendMsgs(r.resolved, now)
               early == SubSeq(r.sent, 1, Len(r.sent) - Len(late))
           IN  runJobs(IF r.error = NoError
                       THEN Append(Tail(queue), [frame |-> job.frame, left |-> 0,
                                                 stage |-> "sendMsgs", msg |-> r.resolved])
                       ELSE Tail(queue),
                       frames,
                       [sessionData |-> r.sessionData,
                        jobs |-> st.jobs \o r.jobs,
                        sent |-> st.sent \o early,
                        order |-> Append(st.order, job.frame)],
                       now)
      ELSE runJobs(Tail(queue), frames,
                   [st EXCEPT !.sent = @ \o sendMsgs(job.msg, now)], now)

\* frames of the connected SensorTag 0015 with different numbers of tokens
BurstTokens == {T_start, T_temp, T_end, T_ping}
BurstFrames == {<<T_id15>> \o f : f \in TokenSeqs(BurstTokens, 0, MaxTokens - 2)}
TokenizedBurst ==
  {[tokens |-> f, tk |-> readDataTokens(readDataToString(FALSE, [tokens |-> f])),
    left |-> thenTicks(f)] : f \in BurstFrames}

\* parser.on("data") called for two frames of one chunk, and the promise jobs
\* they leave run to the end
parserBurst(a, b, now) ==
  /\ port = "open"
  /\ \E st \in {runJobs(<<[frame |-> 1, left |-> a.left, stage |-> "then", msg |-> EmptyObj],
                          [frame |-> 2, left |-> b.left, stage |-> "then", msg |-> EmptyObj]>>,
                        <<a.tk, b.tk>>,
                        [sessionData |-> sessionData, jobs |-> <<>>, sent |-> <<>>,
                         order |-> <<>>],
                        now)} :
       /\ Len(uartSendBuffer) + Len(st.jobs) <= MaxQueue
       /\ sessionData' = st.sessionData
       /\ uartSendBuffer' = uartSendBuffer \o st.jobs
       /\ ev' = [type |-> "burst", frames |-> <<a.tk, b.tk>>, order |-> st.order,
                 jobs |-> st.jobs, sent |-> st.sent, now |-> now]
  /\ rx' = <<>>
  /\ UNCHANGED <<discoveryVars, isServer, port>>

ReceiveBurst == \E a \in TokenizedBurst, b \in TokenizedBurst : parserBurst(a, b, Epoch)

NextBurst == main \/ ReceiveBurst \/ uartSender

SpecBurst == InitPeer /\ [][NextBurst]_vars

(* ---------------------------- port discovery --------------------------- *)

\* The serial devices the operating system can list, in the order in which
\* SerialPort.list() gives them: two SensorTags.
D_a == [path |-> "/dev/a", pnpId |-> "Texas_A_if00"]
D_b == [path |-> "/dev/b", pnpId |-> "Texas_B_if00"]
DeviceList == <<D_a, D_b>>

\* the listings a call of SerialPort.list() can give
Listings == SUBSET {D_a, D_b}
listed(listing) == SelectSeq(DeviceList, LAMBDA d : d \in listing)

\* the hardware id of the device at a path
pnpIdOf(path) == (CHOOSE d \in {D_a, D_b} : d.path = path).pnpId

\* /Texas.*if00$|USB\\VID_0451.*0000$/i.test(pnpId)
isTag(pnpId) == pnpId \in {"Texas_A_if00", "Texas_B_if00"}

\* the order of Array.prototype.sort on [path, pnpId] pairs, which compares
\* them as the strings "path,pnpId"
sortRank(pair) == CHOOSE i \in 1..Len(DeviceList) : DeviceList[i].path = pair[1]

\* An object with string keys is the sequence of its [key, value] pairs in
\* insertion order (Object.keys, Object.entries); a [path, pnpId] array is a
\* pair as well.
keyIn(obj, key) == \E i \in 1..Len(obj) : obj[i][1] = key

\* the elements of seq at the positions in keep, in their order
atPositions(seq, keep) ==
  [j \in 1..Cardinality(keep) |->
     seq[CHOOSE i \in keep : Cardinality({k \in keep : k < i}) = j - 1]]

\* listPorts, ports.forEach: the ports not yet in `all` are added
RECURSIVE addPorts(_, _)
addPorts(all, ports) ==
  IF ports = <<>> THEN all
  ELSE addPorts(IF keyIn(all, Head(ports).path) THEN all
                ELSE Append(all, <<Head(ports).path, Head(ports).pnpId>>),
                Tail(ports))

\* listPorts: finds, the bits 1 << Object.keys(all).indexOf(port.path) of the
\* listed ports, as the set of the bit numbers
findsOf(all, ports) ==
  {i - 1 : i \in {k \in 1..Len(all) : \E j \in 1..Len(ports) : ports[j].path = all[k][1]}}

\* removeOld(n): the entries of `all` at the positions of the bits set in n,
\* below 30, are deleted; [all, count, changes] afterwards
removeOld(all, count, bits) ==
  LET keep == {i \in 1..Len(all) : ~((i - 1) \in bits /\ i - 1 < 30)}
  IN  [all |-> atPositions(all, keep), count |-> count - (Len(all) - Cardinality(keep)),
       changes |-> Cardinality(keep) < Len(all)]

\* listPorts, "automatically find ok ports": [ok, blacklist] after the loop
\* over Object.entries(all) from entry i on
RECURSIVE findOk(_, _, _, _)
findOk(all, i, ok, blacklist) ==
  IF i > Len(all) THEN [ok |-> ok, blacklist |-> blacklist]
  ELSE IF isTag(all[i][2]) /\ ~\E j \in 1..Len(ok) : ok[j][2] = all[i][2]
  THEN findOk(all, i + 1, Append(ok, all[i]),
              IF Has(blacklist, all[i][2]) THEN blacklist
              ELSE Put(blacklist, all[i][2], <<0>>))
  ELSE findOk(all, i + 1, ok, blacklist)

\* ok.sort()
sortOk(ok) ==
  [j \in 1..Len(ok) |->
     ok[CHOOSE i \in 1..Len(ok) :
          Cardinality({k \in 1..Len(ok) : sortRank(ok[k]) < sortRank(ok[i])}) = j - 1]]

\* a selector that passes over a candidate one timeout too early
exceeds_atLeast(blacklist, id) ==
  Has(blacklist, id) /\ blacklist[id] # <<>> /\ blacklist[id][1] >= maxTries

\* a test that takes every candidate that has a counter as blacklisted
exceeds_anyCounter(blacklist, id) == Has(blacklist, id)

\* blacklist[id] > gateway.ports.maxTries: false for a counter that is
\* undefined or NaN (<<>>)
exceeds(blacklist, id) ==
  Has(blacklist, id) /\ blacklist[id] # <<>> /\ blacklist[id][1] > maxTries

\* blacklist[id] += 1: NaN (<<>>) for a counter that is undefined or NaN
increment(blacklist, id) ==
  Put(blacklist, id,
      IF Has(blacklist, id) /\ blacklist[id] # <<>> THEN <<blacklist[id][1] + 1>> ELSE <<>>)

\* One call of the interval function of listPorts for the listing `ports`,
\* by a poller whose oldfinds is given, when count is not -1:
\*   finder    the variables of the module afterwards
\*   oldfinds  the poller's oldfinds afterwards
\*   cleared   whether the poller cleared its interval
\*   resolved  <<path>> if it resolved its promise, else <<>>
\*   skipped   <<pnpId>> if it passed over a candidate, else <<>>
listPortsTick(f, oldfinds, ports) ==
  LET all1 == addPorts(f.all, ports)
      count1 == f.count + (Len(all1) - Len(f.all))
      finds == findsOf(all1, ports)
      rem == removeOld(all1, count1, oldfinds \ finds)
      found == findOk(rem.all, 1, f.ok, f.blacklist)
      f1 == [f EXCEPT !.all = rem.all, !.count = rem.count,
                      !.ok = found.ok, !.blacklist = found.blacklist]
  IN  IF autofind /\ Len(found.ok) > 0
      THEN LET ok == sortOk(found.ok)
               n == f.n % Len(ok)
           IN  IF exceeds(found.blacklist, ok[n + 1][2])
               THEN [finder |-> [f1 EXCEPT !.ok = ok, !.n = n + 1], oldfinds |-> finds,
                     cleared |-> FALSE, resolved |-> <<>>, skipped |-> <<ok[n + 1][2]>>]
               ELSE [finder |-> [f1 EXCEPT !.ok = ok, !.n = n + 1], oldfinds |-> finds,
                     cleared |-> TRUE, resolved |-> <<ok[n + 1][1]>>, skipped |-> <<>>]
      ELSE [finder |-> f1, oldfinds |-> finds,
            cleared |-> ~autofind /\ rem.count > 0, resolved |-> <<>>, skipped |-> <<>>]

\* portFinder.nextPort(): the variables of the module afterwards
nextPort(f) ==
  LET m == IF f.n - 1 < 0 THEN f.n - 1 + Len(f.ok) ELSE f.n - 1
  IN  IF Len(f.ok) > 0
      THEN [f EXCEPT !.blacklist = increment(f.blacklist, f.ok[m + 1][2])]
      ELSE f

\* portFinder.clearBlacklist()
clearBlacklist(f) == [f EXCEPT !.blacklist = EmptyObj]

\* Number(line), for a line of decimal digits, points, signs, blanks and
\* letters that start no numeric literal: the blanks around the text are
\* dropped, the empty text is 0, a text of digits with at most one point
\* (and at least one digit) after an optional sign is the number num/den,
\* and every other text is NaN
NumberOfLine(line) ==
  LET RECURSIVE trimStart(_)
      trimStart(l) == IF l # <<>> /\ Head(l) = " " THEN trimStart(Tail(l)) ELSE l
      RECURSIVE trimEnd(_)
      trimEnd(l) == IF l # <<>> /\ l[Len(l)] = " "
                    THEN trimEnd(SubSeq(l, 1, Len(l) - 1)) ELSE l
      RECURSIVE tenTo(_)
      tenTo(k) == IF k = 0 THEN 1 ELSE 10 * tenTo(k - 1)
      t == trimEnd(trimStart(line))
      neg == t # <<>> /\ Head(t) = "-"
      u == IF neg THEN Tail(t) ELSE t
      points == {i \in 1..Len(u) : u[i] = "."}
      digits == SelectSeq(u, LAMBDA c : c \in DecDigits)
      literal == /\ \A i \in 1..Len(u) : u[i] \in DecDigits \cup {"."}
                 /\ Cardinality(points) <= 1
                 /\ digits # <<>>
      decimals == IF points = {} THEN 0 ELSE Len(u) - (CHOOSE i \in points : TRUE)
  IN  IF t = <<>> THEN [nan |-> FALSE, neg |-> FALSE, num |-> 0, den |-> 1]
      ELSE IF literal
      THEN [nan |-> FALSE, neg |-> neg, num |-> parseDec(digits), den |-> tenTo(decimals)]
      ELSE [nan |-> TRUE, neg |-> FALSE, num |-> 0, den |-> 1]

\* a toFixed(0) that cuts the decimals off
toFixed0_truncating(x) ==
  IF x.nan THEN <<>>
  ELSE <<IF x.neg THEN 0 - (x.num \div x.den) ELSE x.num \div x.den>>

\* Number.prototype.toFixed(0), read back as a number by the comparisons of
\* checkInput: <<>> for "NaN", else the nearest integer, the larger one of
\* two that are equally near (of the absolute value, the sign put in front)
toFixed0(x) ==
  IF x.nan THEN <<>>
  ELSE <<IF x.neg THEN 0 - ((2 * x.num + x.den) \div (2 * x.den))
         ELSE (2 * x.num + x.den) \div (2 * x.den)>>

\* checkInput(line) for a line typed while the ports are listed: <<>> if the
\* line is refused ("The input should be a number.", "Please choose one of
\* the numbers above."), else the variables of the module afterwards and the
\* path the promise resolves with
checkInput(f, line) ==
  LET n == toFixed0(NumberOfLine(line))
  IN  IF n = <<>> THEN <<>>
      ELSE IF n[1] < 1 \/ n[1] > Len(f.all) THEN <<>>
      ELSE <<[finder |-> [f EXCEPT !.count = -1,
                                   !.blacklist = IF Has(f.blacklist, "undefined") THEN @
                                                 ELSE Put(@, "undefined", <<0>>)],
              path |-> f.all[n[1]][1]]>>

(* ------------------- discovery, transports and challenge --------------- *)
\* seq without its element at position p
without(seq, p) == SubSeq(seq, 1, p - 1) \o SubSeq(seq, p + 1, Len(seq))

\* gateway.port, the transport main created last
current == Len(transports)

\* findPorts(), up to its await: count, ok and all are reset, the line
\* listener of portUIInput is installed and listPorts sets a new interval
findPortsCalled(f) ==
  /\ discovery.started < MaxCycles
  /\ finder' = [f EXCEPT !.count = 0, !.ok = <<>>, !.all = <<>>]
  /\ pollers' = Append(pollers, [cycle |-> discovery.started + 1, oldfinds |-> {}])
  /\ discovery' = [started |-> discovery.started + 1, pending |-> TRUE]

\* a main that leaves the race of findPorts unsettled
mainCalled_stillPending(path) ==
  /\ discovery' = discovery
  /\ transports' = Append(transports, [path |-> path, state |-> "opening",
                                         heartbeat |-> isServer, parser |-> "piped"])
  /\ port' = "opening"
  /\ hbTime' = IF isServer THEN clock ELSE hbTime

\* main(path), called with the path findPorts resolved with: the race of
\* findPorts is settled and gateway.port is a new SerialPort that is opening;
\* its parser is piped and, in server use, its heartbeat interval is set
mainCalled(path) ==
  /\ discovery' = [discovery EXCEPT !.pending = FALSE]
  /\ transports' = Append(transports, [path |-> path, state |-> "opening",
                                         heartbeat |-> isServer, parser |-> "piped"])
  /\ port' = "opening"
  /\ hbTime' = IF isServer THEN clock ELSE hbTime

\* the program is started with the -s option: portFinder.findPorts().then(main)
InitDiscovery ==
  /\ isServer = TRUE
  /\ port = "undefined"
  /\ sessionData = EmptyObj
  /\ uartSendBuffer = <<>>
  /\ ev = [type |-> "init"]
  /\ rx = <<>>
  /\ finder = [count |-> 0, n |-> 0, ok |-> <<>>, all |-> <<>>, blacklist |-> EmptyObj]
  /\ pollers = <<[cycle |-> 1, oldfinds |-> {}]>>
  /\ discovery = [started |-> 1, pending |-> TRUE]
  /\ responded = FALSE
  /\ transports = <<>>
  /\ timers = {}
  /\ timeouts = EmptyObj
  /\ autofind = TRUE
  /\ hbTime = 0
  /\ clock = 0

\* the interval function of the poller p of listPorts is called, and the
\* operating system lists `listing`
pollTick(p, listing) ==
  IF finder.count = -1
  THEN /\ pollers' = without(pollers, p)
       /\ ev' = [type |-> "tick", cycle |-> pollers[p].cycle, listing |-> listing,
                 stopped |-> TRUE, resolved |-> <<>>, skipped |-> <<>>, main |-> FALSE]
       /\ UNCHANGED <<finder, discovery, transports, port, hbTime>>
  ELSE \E t \in {listPortsTick(finder, pollers[p].oldfinds, listed(listing))} :
       LET wins == /\ t.resolved # <<>>
                   /\ pollers[p].cycle = discovery.started
                   /\ discovery.pending
       IN  /\ finder' = t.finder
           /\ pollers' = IF t.cleared THEN without(pollers, p)
                         ELSE [pollers EXCEPT ![p].oldfinds = t.oldfinds]
           /\ IF wins THEN mainCalled(t.resolved[1])
              ELSE UNCHANGED <<discovery, transports, port, hbTime>>
           /\ ev' = [type |-> "tick", cycle |-> pollers[p].cycle, listing |-> listing,
                     stopped |-> FALSE, resolved |-> t.resolved, skipped |-> t.skipped,
                     main |-> wins]

PollTick ==
  /\ \E p \in 1..Len(pollers), listing \in Listings : pollTick(p, listing)
  /\ UNCHANGED <<autofind, clock, timeouts, isServer, sessionData, uartSendBuffer, rx, responded, timers>>

\* a number is typed while portUIInput listens, and checkInput accepts it
typeNumber(line) ==
  /\ discovery.pending
  /\ checkInput(finder, line) # <<>>
  /\ finder' = checkInput(finder, line)[1].finder
  /\ mainCalled(checkInput(finder, line)[1].path)
  /\ ev' = [type |-> "input", line |-> line, resolved |-> <<checkInput(finder, line)[1].path>>,
            all |-> finder.all]
  /\ UNCHANGED <<autofind, clock, timeouts, isServer, sessionData, uartSendBuffer, rx, pollers, responded,
                 timers>>

\* the numbers of the port menu, as they are typed
MenuNumbers == {<<"1">>, <<"2">>}

TypeNumber == \E line \in MenuNumbers : typeNumber(line)

\* the "line" listener of portUIInput is called with a line: checkInput
\* resolves the race of findPorts or writes its message and rejects, which
\* the listener ignores
typeLine(line) ==
  IF checkInput(finder, line) # <<>> THEN typeNumber(line)
  ELSE /\ discovery.pending
       /\ ev' = [type |-> "input", line |-> line, resolved |-> <<>>, all |-> finder.all]
       /\ UNCHANGED <<finder, discovery, transports, port, hbTime, autofind, clock, timeouts,
                      isServer, sessionData, uartSendBuffer, rx, pollers, responded, timers>>

\* the lines typed at the port menu: digits, points, signs, blanks, a letter
MenuChars == {"1", "2", "5", ".", "-", " ", "a"}
MenuLines == UNION {[1..n -> MenuChars] : n \in 0..MaxLine}

TypeMenuLine == \E line \in MenuLines : typeLine(line)

\* gateway.port.on("open"): the challenge is scheduled in server use
portOpen ==
  /\ current > 0 /\ transports[current].state = "opening"
  /\ transports' = [transports EXCEPT ![current].state = "open"]
  /\ port' = "open"
  /\ IF isServer
     THEN /\ timers' = timers \cup {[kind |-> "sendChallenge", port |-> current]}
          /\ UNCHANGED responded
     ELSE /\ responded' = TRUE
          /\ UNCHANGED timers
  /\ ev' = [type |-> "open", port |-> current]
  /\ UNCHANGED <<autofind, hbTime, clock, timeouts, isServer, sessionData, uartSendBuffer, rx, finder, pollers, discovery>>

\* the callback of new SerialPort with an error ("Bad port"):
\* portFinder.findPorts().then(main)
badPort ==
  /\ current > 0 /\ transports[current].state = "opening"
  /\ transports' = [transports EXCEPT ![current].state = "failed"]
  /\ port' = "closed"
  /\ findPortsCalled(finder)
  /\ ev' = [type |-> "badPort", port |-> current]
  /\ UNCHANGED <<autofind, hbTime, clock, timeouts, isServer, sessionData, uartSendBuffer, rx, responded, timers>>

\* gateway.port.on("close") of the transport i: the timeout of 1500 ms is set
closed(i) ==
  /\ transports' = [transports EXCEPT ![i].state = "closed"]
  /\ port' = IF i = current THEN "closed" ELSE port
  /\ timers' = timers \cup {[kind |-> "reconnect", port |-> i]}

\* the transport is lost (unplugged, ".reconnect")
portLost ==
  /\ current > 0 /\ transports[current].state = "open"
  /\ closed(current)
  /\ ev' = [type |-> "close", port |-> current]
  /\ UNCHANGED <<autofind, hbTime, clock, timeouts, isServer, sessionData, uartSendBuffer, rx, finder, pollers, discovery, responded>>

\* a "close" timeout that leaves the heartbeat interval set
reconnect_keepsHeartbeat(i) ==
  /\ [kind |-> "reconnect", port |-> i] \in timers
  /\ timers' = timers \ {[kind |-> "reconnect", port |-> i]}
  /\ responded' = FALSE
  /\ transports' = [transports EXCEPT ![i].parser = "destroyed"]
  /\ findPortsCalled(finder)
  /\ ev' = [type |-> "reconnect", port |-> i]
  /\ UNCHANGED <<autofind, hbTime, clock, timeouts, isServer, sessionData, uartSendBuffer, rx, port>>

\* the timeout of the "close" handler of the transport i fires: the heartbeat
\* interval of that call of main is cleared, its parser destroyed and
\* findPorts called
reconnect(i) ==
  /\ [kind |-> "reconnect", port |-> i] \in timers
  /\ timers' = timers \ {[kind |-> "reconnect", port |-> i]}
  /\ responded' = FALSE
  /\ transports' = [transports EXCEPT ![i].heartbeat = FALSE, ![i].parser = "destroyed"]
  /\ findPortsCalled(finder)
  /\ ev' = [type |-> "reconnect", port |-> i]
  /\ UNCHANGED <<autofind, hbTime, clock, timeouts, isServer, sessionData, uartSendBuffer, rx, port>>

Reconnect == \E i \in 1..Len(transports) : reconnect(i)

\* uart.sendChallenge(), scheduled at the open of the transport i
sendChallenge(i) ==
  /\ [kind |-> "sendChallenge", port |-> i] \in timers
  /\ uartSendBuffer' =
       Append(uartSendBuffer,
              uartWrite([str |-> <<"NUL", "NUL", "SOH", "I", "d", "e", "n", "t", "i", "f", "y">>,
                         internal |-> TRUE], FALSE))
  /\ responded' = FALSE
  /\ timers' = (timers \ {[kind |-> "sendChallenge", port |-> i]})
                 \cup {[kind |-> "challenge", port |-> i]}
  /\ ev' = [type |-> "sendChallenge", port |-> i]
  /\ UNCHANGED <<autofind, hbTime, clock, timeouts, isServer, sessionData, rx, finder, pollers, discovery, transports, port>>

SendChallenge == \E i \in 1..Len(transports) : sendChallenge(i)

\* the timeout of 3000 ms set by sendChallenge for the transport i fires:
\* without a response the port handed out last is counted and gateway.port
\* is closed
challengeTimeout(i) ==
  /\ [kind |-> "challenge", port |-> i] \in timers
  /\ IF responded
     THEN /\ timers' = timers \ {[kind |-> "challenge", port |-> i]}
          /\ UNCHANGED <<finder, transports, port>>
     ELSE /\ finder' = nextPort(finder)
          /\ IF transports[current].state = "open"
             THEN /\ transports' = [transports EXCEPT ![current].state = "closed"]
                  /\ port' = "closed"
                  /\ timers' = (timers \ {[kind |-> "challenge", port |-> i]})
                                 \cup {[kind |-> "reconnect", port |-> current]}
             ELSE /\ timers' = timers \ {[kind |-> "challenge", port |-> i]}
                  /\ UNCHANGED <<transports, port>>
  /\ timeouts' = IF responded THEN timeouts
                 ELSE Put(timeouts, pnpIdOf(transports[i].path),
                          IF Has(timeouts, pnpIdOf(transports[i].path))
                          THEN timeouts[pnpIdOf(transports[i].path)] + 1 ELSE 1)
  /\ ev' = [type |-> "challengeTimeout", port |-> i, responded |-> responded,
            current |-> current, before |-> finder,
            live |-> transports[i].state = "open",
            closes |-> ~responded /\ transports[current].state = "open"]
  /\ UNCHANGED <<autofind, hbTime, clock, isServer, sessionData, uartSendBuffer, rx, pollers, discovery,
                 responded>>

ChallengeTimeout == \E i \in 1..Len(transports) : challengeTimeout(i)

\* parser.on("data") for a frame with the signature of the challenge
\* response (0xfe, 0xfe, 0x01) while uart.responded is false: parseChallenge
challengeResponse ==
  /\ current > 0 /\ transports[current].state = "open"
  /\ ~responded
  /\ finder' = clearBlacklist(finder)
  /\ responded' = TRUE
  /\ timeouts' = EmptyObj
  /\ ev' = [type |-> "response", port |-> current]
  /\ UNCHANGED <<autofind, hbTime, clock, isServer, port, sessionData, uartSendBuffer, rx, pollers,
                 discovery, transports, timers>>

\* the program is started with the -s option and ports.autofind set to false
InitManual ==
  /\ isServer = TRUE
  /\ port = "undefined"
  /\ sessionData = EmptyObj
  /\ uartSendBuffer = <<>>
  /\ ev = [type |-> "init"]
  /\ rx = <<>>
  /\ finder = [count |-> 0, n |-> 0, ok |-> <<>>, all |-> <<>>, blacklist |-> EmptyObj]
  /\ pollers = <<[cycle |-> 1, oldfinds |-> {}]>>
  /\ discovery = [started |-> 1, pending |-> TRUE]
  /\ responded = FALSE
  /\ transports = <<>>
  /\ timers = {}
  /\ timeouts = EmptyObj
  /\ autofind = FALSE
  /\ hbTime = 0
  /\ clock = 0

\* Manual selection: the ports are listed, a line is typed, and a port that
\* cannot be opened starts discovery again.
NextManual == PollTick \/ TypeMenuLine \/ badPort

SpecManual == InitManual /\ [][NextManual]_vars

NextDiscovery ==
  \/ PollTick \/ TypeNumber \/ portOpen \/ badPort \/ portLost \/ Reconnect
  \/ SendChallenge \/ ChallengeTimeout \/ challengeResponse

SpecDiscovery == InitDiscovery /\ [][NextDiscovery]_vars

\* Automatic discovery with ports that open, and the timeouts: a timeout that
\* has been set fires (the timeout of a "close" handler, the timeout that
\* calls sendChallenge and the timeout of a challenge).
NextTimers ==
  \/ PollTick \/ portOpen \/ portLost \/ Reconnect \/ SendChallenge \/ ChallengeTimeout
  \/ challengeResponse

SpecTimers ==
  /\ InitDiscovery /\ [][NextTimers]_vars
  /\ WF_vars(Reconnect) /\ WF_vars(SendChallenge) /\ WF_vars(ChallengeTimeout)

\* The same, and the interval of listPorts fires every second as well.
SpecRoundRobin ==
  /\ InitDiscovery /\ [][NextTimers]_vars
  /\ WF_vars(PollTick)
  /\ WF_vars(Reconnect) /\ WF_vars(SendChallenge) /\ WF_vars(ChallengeTimeout)

(* ------------------------ frames and the challenge --------------------- *)
\* the address 0xfefe of the ServerTag itself: both address bytes are 0xfe
ServerTagAddr == 65278

\* What the parser delivers on a transport in server use: the heartbeat
\* answer of the ServerTag, 0xfe 0xfe "\x01HB", and the session start and
\* end of the sender 0015; soh tells whether the byte after the address is
\* 0x01.
GateFrames ==
  {[senderAddr |-> ServerTagAddr, soh |-> TRUE, tokens |-> <<>>]}
    \cup {[senderAddr |-> 21, soh |-> FALSE, tokens |-> <<t>>] : t \in {T_start, T_end}}

\* a parseChallenge that accepts the frame with the signature
parseChallenge_accepts(data) ==
  [signature |-> data.senderAddr = ServerTagAddr /\ data.soh,
   result |-> data.senderAddr = ServerTagAddr /\ data.soh]

\* uart.parseChallenge(data): whether the frame has the signature of the
\* challenge response (data[0] == data[1] == 0xfe, data[2] == 1), on which it
\* clears the blacklist and sets uart.responded, and the value it returns
parseChallenge(data) ==
  [signature |-> data.senderAddr = ServerTagAddr /\ data.soh, result |-> FALSE]

\* parser.on("data") of the open transport:
\*   if (!uart.responded && !uart.parseChallenge(data)) return;
\*   reader.unwrap(data).then(comm.sendMsgs)
\* unwrap resolves the heartbeat answer "id:fefe,\x01HB" with {} at once.
parserOnData(data, now) ==
  /\ current > 0 /\ transports[current].state = "open"
  /\ LET sig == ~responded /\ parseChallenge(data).signature
     IN  IF ~responded /\ ~parseChallenge(data).result
         THEN /\ responded' = sig
              /\ finder' = IF sig THEN clearBlacklist(finder) ELSE finder
              /\ timeouts' = IF sig THEN EmptyObj ELSE timeouts
              /\ ev' = [type |-> "dropped", signature |-> sig]
              /\ UNCHANGED <<autofind, hbTime, clock, isServer, port, sessionData, uartSendBuffer, rx, pollers,
                             discovery, transports, timers>>
         ELSE IF data.senderAddr = ServerTagAddr /\ data.soh
         THEN /\ responded' = (responded \/ sig)
              /\ finder' = IF sig THEN clearBlacklist(finder) ELSE finder
              /\ timeouts' = IF sig THEN EmptyObj ELSE timeouts
              /\ hbTime' = now
              /\ ev' = [type |-> "data", heartbeat |-> TRUE]
              /\ UNCHANGED <<autofind, clock, isServer, port, sessionData, uartSendBuffer, rx, pollers,
                             discovery, transports, timers>>
         ELSE /\ parserData(readDataTokens(readDataToString(TRUE, data)), now)
              /\ rx' = rx

ParserOnData == \E data \in GateFrames : parserOnData(data, Epoch)

NextChallenge ==
  \/ PollTick \/ portOpen \/ portLost \/ Reconnect \/ SendChallenge \/ ChallengeTimeout
  \/ ParserOnData \/ uartSender

SpecChallenge == InitDiscovery /\ [][NextChallenge]_vars

(* ----------------------- vocabulary of the claims ---------------------- *)
E_noSessionData == "Error: Sensor data received while no session has been started."
E_full          == "Error: Sensor data session is full"
E_empty         == "Error: The session was empty. It will not be sent."
E_noSession     == "Error: No session was started. Session data send prevented."

A_0015 == <<"0", "0", "1", "5">>

\* the last step handled a frame that tokenized
Decoded(e) == e.type = "data" /\ e.addr # NoAddr
\* what the frame decoded to
HasData(e) == Has(e.resultDicts, "sensordata")
HasPing(e) == hasCommand(e.resultDicts, "ping")
Starts(e)  == sessionIs(e.resultDicts, TRUE)
Ends(e)    == sessionIs(e.resultDicts, FALSE)
\* the sender's session before the frame
WasOpen(e) == e.before # <<>>
Rows(buf)  == Len(buf["timeStamp"])
\* the publishes on the session topic
SessionPublishes(e) == SelectSeq(e.sent, LAMBDA m : m.topic = "sensordata")
\* a queue entry that is the reply "pong" for addr
PongTo(job, addr) ==
  /\ txMsg(job.txBuf) = S_pong
  /\ isServer => txAddr(job.txBuf) = addr
EqualColumns(buf) == \A c \in columns : Len(buf[c]) = Len(buf["timeStamp"])
SameRows(b1, b2) == \A c \in columns : b1[c] = b2[c]

(* -------------------------------- C1 ----------------------------------- *)
\* C1: when the sender has no open session, the README message
\* "id:15,session:start,temp:..,session:end,ping" gives exactly one session
\* publish holding exactly one row with that temperature and one pong job for
\* 0015, and leaves 0015 without an open session.  (SpecReadme)
C1_ReadmeSessionExample ==
  (ev.type = "data" /\ rx = README_session /\ ev.before = <<>>) =>
     /\ ev.error = NoError
     /\ Len(SessionPublishes(ev)) = 1
     /\ SessionPublishes(ev)[1].msg["temperature"] = << <<27>> >>
     /\ EqualColumns(SessionPublishes(ev)[1].msg)
     /\ Len(ev.jobs) = 1
     /\ PongTo(ev.jobs[1], A_0015)
     /\ ~Has(sessionData, A_0015)

\* the README message has been handled for a sender without an open session
C1_Reached == ev.type = "data" /\ rx = README_session /\ ev.before = <<>>

(* -------------------------------- C2 ----------------------------------- *)
\* the entry an accepted frame adds to column c
NewCell(e, c, start) ==
  IF Has(e.resultDicts["sensordata"], c) THEN e.resultDicts["sensordata"][c]
  ELSE IF c = "timeStamp" THEN <<e.now - start>>
  ELSE null

\* C2: the columns of every open session buffer have the same length, and a
\* frame with sensor data that is accepted adds exactly one entry to every
\* column: the value received, the time elapsed since the session start when
\* no time stamp came, null for any other column that did not come.  (SpecRows)
C2_ColumnsInLockStep ==
  /\ \A a \in DOMAIN sessionData : EqualColumns(sessionData[a])
  /\ (Decoded(ev) /\ HasData(ev) /\ ev.error = NoError) =>
       LET base == IF Starts(ev) THEN makeDataEntry(ev.addr, ev.now) ELSE ev.before[1]
           result == IF Ends(ev) THEN SessionPublishes(ev)[1].msg ELSE sessionData[ev.addr]
       IN  /\ EqualColumns(result)
           /\ \A c \in columns :
                result[c] = Append(base[c], NewCell(ev, c, base["sessionTimeStamp"]))

\* a buffer of two rows: a temperature stamped with the elapsed time, then a
\* row with an explicit time stamp only
C2_Witness ==
  /\ Decoded(ev) /\ HasData(ev) /\ ev.error = NoError
  /\ Has(sessionData, ev.addr)
  /\ sessionData[ev.addr]["temperature"] = << <<27>>, null >>
  /\ sessionData[ev.addr]["timeStamp"] = << <<1>>, <<7>> >>
  /\ sessionData[ev.addr]["gz"] = << null, null >>

(* -------------------------------- C3 ----------------------------------- *)
\* C3: no session buffer holds more than maxSessionRows rows; sensor data
\* that arrives when the sender's buffer holds maxSessionRows rows is refused
\* with the capacity error and the buffer stays as it was; a session:end that
\* arrives for such a buffer publishes exactly its maxSessionRows rows.
C3_BufferCapped ==
  /\ \A a \in DOMAIN sessionData : Rows(sessionData[a]) <= maxSessionRows
  /\ (Decoded(ev) /\ HasData(ev) /\ ~Starts(ev) /\ WasOpen(ev)
        /\ Rows(ev.before[1]) = maxSessionRows) =>
       /\ ev.error = E_full
       /\ ev.sent = <<>>
       /\ Has(sessionData, ev.addr)
       /\ sessionData[ev.addr] = ev.before[1]
  /\ (Decoded(ev) /\ Ends(ev) /\ ~HasData(ev) /\ WasOpen(ev)
        /\ Rows(ev.before[1]) = maxSessionRows) =>
       /\ ev.error = NoError
       /\ Len(SessionPublishes(ev)) = 1
       /\ Rows(SessionPublishes(ev)[1].msg) = maxSessionRows
       /\ SameRows(SessionPublishes(ev)[1].msg, ev.before[1])

\* the row after the last one has just been refused
C3_Witness ==
  /\ Decoded(ev) /\ HasData(ev) /\ ev.error = E_full
  /\ Rows(sessionData[ev.addr]) = maxSessionRows

(* -------------------------------- C4 ----------------------------------- *)
\* C4: a frame whose session field is start, received while the sender's
\* session is open, is accepted and leaves the sender with a new buffer that
\* holds nothing of the old one: no row, or the one row of this frame; and
\* what a later session end publishes is the buffer as it stood, so no row
\* from before the second start is published.  (SpecRows)
C4_SecondStartWins ==
  /\ (Decoded(ev) /\ Starts(ev) /\ WasOpen(ev)) =>
       /\ ev.error = NoError
       /\ ev.sent = <<>>
       /\ Has(sessionData, ev.addr)
       /\ sessionData[ev.addr]["sessionTimeStamp"] = ev.now
       /\ \A c \in columns :
            sessionData[ev.addr][c] =
              IF HasData(ev) THEN <<NewCell(ev, c, ev.now)>> ELSE <<>>
  /\ (Decoded(ev) /\ Ends(ev) /\ ~HasData(ev) /\ Len(SessionPublishes(ev)) > 0) =>
       /\ WasOpen(ev)
       /\ SameRows(SessionPublishes(ev)[1].msg, ev.before[1])

\* a second start has just emptied a session that held a row
C4_Witness ==
  /\ Decoded(ev) /\ Starts(ev) /\ ~HasData(ev) /\ WasOpen(ev)
  /\ Rows(ev.before[1]) >= 1
  /\ Rows(sessionData[ev.addr]) = 0

(* -------------------------------- C5 ----------------------------------- *)
\* the sensor data of the frame is refused: it comes without a session start
\* for a sender whose session is not open or is full
Refused(e) ==
  HasData(e) /\ ~Starts(e) /\ (~WasOpen(e) \/ Rows(e.before[1]) >= maxSessionRows)

EndsEmpty(e) ==
  Decoded(e) /\ Ends(e) /\ ~HasData(e) /\ WasOpen(e) /\ Rows(e.before[1]) = 0

\* C6 as stated: a session end for an open session without rows is rejected
\* with the empty-session error, publishes nothing and discards the buffer.
C6_EmptyEndDiscards ==
  EndsEmpty(ev) =>
    /\ ev.error = E_empty
    /\ ev.sent = <<>>
    /\ ~Has(sessionData, ev.addr)

\* C6 amended: a session end for an open session without rows is rejected with
\* the empty-session error and publishes nothing, and the empty buffer is kept
\* as it was: the sender's session stays open, and sensor data that follows
\* without a new session start is accepted as its first row.
C6_EmptyEndKeepsSession ==
  /\ EndsEmpty(ev) =>
       /\ ev.error = E_empty
       /\ ev.sent = <<>>
       /\ Has(sessionData, ev.addr)
       /\ sessionData[ev.addr] = ev.before[1]
  /\ (Decoded(ev) /\ HasData(ev) /\ ~Starts(ev) /\ WasOpen(ev) /\ Rows(ev.before[1]) = 0) =>
       /\ ev.error = NoError
       /\ IF Ends(ev)
          THEN Len(SessionPublishes(ev)) = 1 /\ Rows(SessionPublishes(ev)[1].msg) = 1
          ELSE Has(sessionData, ev.addr) /\ Rows(sessionData[ev.addr]) = 1

\* the end of an empty session has just been refused
C6_Witness ==
  /\ EndsEmpty(ev)
  /\ ev.error = E_empty
  /\ Has(sessionData, ev.addr)
  /\ Rows(sessionData[ev.addr]) = 0

WasFull(e) == WasOpen(e) /\ Rows(e.before[1]) = maxSessionRows

\* the frame is answered with exactly one pong for its sender, queued last
Ponged(e) ==
  /\ Len(e.jobs) = 1
  /\ PongTo(e.jobs[1], e.addr)
  /\ uartSendBuffer # <<>>
  /\ uartSendBuffer[Len(uartSendBuffer)] = e.jobs[1]

\* the frame succeeds: it is accepted, its ping is answered, its session end
\* publishes the full buffer and removes it
Succeeds(e) ==
  /\ e.error = NoError
  /\ HasPing(e) => Ponged(e)
  /\ Ends(e) =>
       /\ Len(SessionPublishes(e)) = 1
       /\ ~Has(sessionData, e.addr)

C9_PingAlwaysAnswered ==
  (Decoded(ev) /\ HasPing(ev)) => Ponged(ev)

\* C9 amended: every frame that tokenizes and contains a ping field queues
\* exactly one reply for the frame's sender, whatever the state of the
\* sender's session and whatever else the frame carries, unless the sensor
\* data of the frame is refused (it comes without a session start for a
\* sender whose session is not open or is full): then no reply is queued.
C9_PingAnsweredUnlessRefused ==
  (Decoded(ev) /\ HasPing(ev)) =>
     IF Refused(ev)
     THEN ev.jobs = <<>> /\ ev.error \in {E_noSessionData, E_full}
     ELSE Ponged(ev)

\* a ping that came with accepted sensor data has been answered
C9_Witness ==
  /\ Decoded(ev) /\ HasPing(ev) /\ HasData(ev) /\ WasOpen(ev) /\ ~Starts(ev)
  /\ ev.error = NoError
  /\ Ponged(ev)

(* -------------------------------- C10 ---------------------------------- *)
\* C10: a frame with ping and session end whose session end is rejected (the
\* sender has no open session, or an empty one) has queued its pong all the
\* same, and so has one whose session end is carried out.
C10_PongBeforeSessionEnd ==
  /\ (Decoded(ev) /\ HasPing(ev) /\ Ends(ev) /\ ~HasData(ev)
        /\ (~WasOpen(ev) \/ Rows(ev.before[1]) = 0)) =>
       /\ ev.error = IF WasOpen(ev) THEN E_empty ELSE E_noSession
       /\ ev.sent = <<>>
       /\ Ponged(ev)
  /\ (Decoded(ev) /\ HasPing(ev) /\ Ends(ev) /\ ev.error \in {E_empty, E_noSession, NoError}) =>
       Ponged(ev)

\* the end of an empty session has been refused and the ping answered
C10_Witness ==
  /\ Decoded(ev) /\ HasPing(ev) /\ Ends(ev)
  /\ ev.error = E_empty
  /\ Ponged(ev)

(* -------------------------------- C11 ---------------------------------- *)
\* the tamagotchi updates published for the frame
Updates(e) == SelectSeq(e.sent, LAMBDA m : m.topic = "tamagotchiUpdate")

\* C11: the README message "id:1234,ACTIVATE:1;2;3,light:208" has its three
\* actions forwarded (eat 1, exercise 2, pet 3) whether or not the sender has
\* an open session, and its light level is recorded as a row only if the
\* sender has one.  (SpecReadme)
C11_ActionsForwardedWithData ==
  (ev.type = "data" /\ rx = README_ACTIVATE) =>
     /\ Len(Updates(ev)) = 3
     /\ Updates(ev)[1].msg = [sensortagID |-> <<"1", "2", "3", "4">>,
                              event |-> "eat", increasedBy |-> 1]
     /\ Updates(ev)[2].msg = [sensortagID |-> <<"1", "2", "3", "4">>,
                              event |-> "exercise", increasedBy |-> 2]
     /\ Updates(ev)[3].msg = [sensortagID |-> <<"1", "2", "3", "4">>,
                              event |-> "pet", increasedBy |-> 3]
     /\ IF WasOpen(ev)
        THEN sessionData[ev.addr]["lightIntensity"]
               = Append(ev.before[1]["lightIntensity"], <<208>>)
        ELSE ~Has(sessionData, ev.addr)

(* -------------------------------- C12 ---------------------------------- *)
\* C12: a step that handles a frame in which a token has an unknown name or a
\* value its decoder rejects, or which has no id token, wherever that token
\* stands, is rejected, leaves every session buffer and the outbound queue as
\* they were and publishes nothing.  (SpecFields)
C12_MalformedFrameDropped ==
  [][(ev'.type = "data" /\ TRUE \in {rx'[i] : i \in 1..Len(rx')}) =>
       /\ ev'.error # NoError
       /\ sessionData' = sessionData
       /\ uartSendBuffer' = uartSendBuffer
       /\ ev'.jobs = <<>>
       /\ ev'.sent = <<>>]_vars

\* a frame whose only fault is a rejected value has been dropped while the
\* sender's session holds a row
C12_Witness ==
  /\ ev.type = "data" /\ rx = <<FALSE, TRUE, FALSE>>
  /\ ev.error = "Error: Non-numeric value"
  /\ Has(sessionData, A_0015)
  /\ Rows(sessionData[A_0015]) = 1

(* -------------------------------- C13 ---------------------------------- *)
\* the Levenshtein distance by its recurrence
RECURSIVE EditDistance(_, _)
EditDistance(a, b) ==
  IF a = <<>> THEN Len(b)
  ELSE IF b = <<>> THEN Len(a)
  ELSE min3(EditDistance(Tail(a), b) + 1,
            EditDistance(a, Tail(b)) + 1,
            EditDistance(Tail(a), Tail(b)) + (IF Head(a) = Head(b) THEN 0 ELSE 1))

\* s is the first short name, in schema order, at minimal distance from str
FirstNearest(s, str) ==
  \E k \in 1..Len(shortNames) :
    /\ shortNames[k] = s
    /\ \A j \in 1..Len(shortNames) :
         EditDistance(str, shortNames[j]) >= EditDistance(str, s)
    /\ \A j \in 1..(k - 1) :
         EditDistance(str, shortNames[j]) > EditDistance(str, s)

Forces(e, t) ==
  \E k \in 1..Len(dataTypes) :
    /\ dataTypes[k].forceSend # FALSE
    /\ includes(dataTypes[k].topics, t)
    /\ Has(e.resultDicts, t)
    /\ Has(e.resultDicts[t], dataTypes[k].nameInDB)

\* C14: of the topics a frame touches only those a field forces, and event
\* when the frame has tamagotchi actions, are published for the frame; the
\* sensor data of a frame is never published by itself: whatever is published
\* on the session topic is a whole session buffer, published by the session
\* end of the frame, and accepted sensor data is in the buffer or in that
\* publish.  (SpecTopics)
C14_OnlyForcedTopicsForwarded ==
  ev.type = "data" =>
    /\ \A i \in 1..Len(ev.sent) :
         LET m == ev.sent[i]
         IN  /\ m.topic \in {"event", "tamagotchiUpdate", "additionalMessages", "sensordata"}
             /\ m.topic \in {"event", "tamagotchiUpdate"} => Has(ev.resultDicts, "tamaActions")
             /\ m.topic = "additionalMessages" => Forces(ev, "additionalMessages")
             /\ m.topic = "sensordata" =>
                  /\ i = 1 /\ Ends(ev) /\ WasOpen(ev)
                  /\ DOMAIN m.msg = columns \cup {"sensortagID"}
                  /\ EqualColumns(m.msg)
                  /\ ~Has(sessionData, ev.addr)
    /\ (Decoded(ev) /\ HasData(ev) /\ ev.error = NoError) =>
         IF Ends(ev)
         THEN Len(SessionPublishes(ev)) = 1
         ELSE /\ SessionPublishes(ev) = <<>>
              /\ Rows(sessionData[ev.addr]) >= 1

\* a frame with a temperature and a text has been accepted: the text is
\* published, the temperature is in the buffer and not published
C14_Witness ==
  /\ Decoded(ev) /\ HasData(ev) /\ ~Ends(ev) /\ ev.error = NoError
  /\ Forces(ev, "additionalMessages")
  /\ Len(ev.sent) = 1
  /\ ev.sent[1].topic = "additionalMessages"
  /\ sessionData[ev.addr]["temperature"] = << <<27>> >>

(* -------------------------------- C15 ---------------------------------- *)
\* v with zeros put in front up to four characters
LeftPadded(v) ==
  [i \in 1..4 |-> IF i <= 4 - Len(v) THEN "0" ELSE v[i - (4 - Len(v))]]

\* C15: a frame tokenizes only if its id value has one to four (hexadecimal)
\* characters, and its sender address is then that value with zeros in front
\* up to exactly four characters; id values that differ in leading zeros only
\* give the same address, so every session buffer is kept under an address of
\* four characters; an id value of more than four characters is rejected and
\* the frame does nothing.  (SpecIds)
C15_AddressIsPaddedId ==
  /\ \A a \in DOMAIN sessionData : Len(a) = 4
  /\ ev.type = "data" =>
       IF Len(rx) \in 1..4 /\ \A i \in 1..Len(rx) : rx[i] \in HexDigits
       THEN /\ Decoded(ev)
            /\ Len(ev.addr) = 4
            /\ ev.addr = LeftPadded(rx)
            /\ ev.resultDicts["event"]["sensortagID"] = LeftPadded(rx)
            /\ rx \in {<<"2", "3">>, <<"0", "2", "3">>, <<"0", "0", "2", "3">>} =>
                 ev.addr = <<"0", "0", "2", "3">>
       ELSE /\ ev.error = "Error: SensorTag ID has to be 4 hex digits"
            /\ ev.addr = NoAddr
            /\ ev.sent = <<>> /\ ev.jobs = <<>>
  /\ (ev.type = "data" /\ Len(rx) > 4) => ev.error # NoError

\* a frame sent with id:23 has added the second row to the session of 0023
C15_Witness ==
  /\ Decoded(ev) /\ rx = <<"2", "3">>
  /\ HasData(ev) /\ ~Starts(ev) /\ WasOpen(ev)
  /\ DOMAIN sessionData = {<<"0", "0", "2", "3">>}
  /\ Rows(sessionData[ev.addr]) = 2

(* ---------------------------------- C16 -------------------------------- *)
\* what handling the frames one after the other, each to its end, leaves
RECURSIVE InArrivalOrder(_, _, _)
InArrivalOrder(frames, st, now) ==
  IF frames = <<>> THEN st
  ELSE LET r == unwrapHandlerIn(st.sessionData, Head(frames), now)
       IN  InArrivalOrder(Tail(frames),
                          [sessionData |-> r.sessionData, jobs |-> st.jobs \o r.jobs,
                           sent |-> st.sent \o r.sent],
                          now)

\* C16: frames delivered back-to-back are processed to completion in arrival
\* order: the session buffers, the queued replies and the publishes after
\* two frames of one chunk are those of handling the first frame entirely
\* and then the second, whatever their numbers of tokens.
C16_FramesInArrivalOrder ==
  [][ev'.type = "burst" =>
       LET seq == InArrivalOrder(ev'.frames,
                                 [sessionData |-> sessionData, jobs |-> <<>>, sent |-> <<>>],
                                 ev'.now)
       IN  /\ sessionData' = seq.sessionData
           /\ ev'.jobs = seq.jobs
           /\ ev'.sent = seq.sent]_vars

(* ---------------------------------- C17 -------------------------------- *)
\* C17: outbound jobs are written in the order in which they were enqueued,
\* at most one per pacing tick, and none twice: the queue changes only by a
\* job added at its end or by the one write of a tick, which hands the
\* oldest job (and no other) to the port and removes it.
C17_WrittenInEnqueueOrder ==
  [][\/ uartSendBuffer' = uartSendBuffer /\ ev'.type # "write"
     \/ /\ ev'.type = "uartWrite"
        /\ Len(uartSendBuffer') = Len(uartSendBuffer) + 1
        /\ SubSeq(uartSendBuffer', 1, Len(uartSendBuffer)) = uartSendBuffer
     \/ /\ ev'.type = "write"
        /\ uartSendBuffer # <<>>
        /\ ev'.txBuf = Head(uartSendBuffer).txBuf
        /\ uartSendBuffer' = Tail(uartSendBuffer)]_vars

\* a tick writes the older of two different queued jobs
C17_Witness ==
  /\ ev.type = "write"
  /\ Len(uartSendBuffer) = 1
  /\ uartSendBuffer[1].txBuf # ev.txBuf

(* ---------------------------------- C18 -------------------------------- *)
\* the jobs that were queued are still queued, in their places
JobsStay == SubSeq(uartSendBuffer', 1, Len(uartSendBuffer)) = uartSendBuffer

\* C18 (as stated): a tick while the queue is empty or no transport is open
\* changes nothing: while the transport is not open (never opened, or closed
\* and not yet opened again) no job is written and every queued job stays.
C18_NoWriteWithoutOpenTransport ==
  [][/\ ev'.type = "write" => uartSendBuffer # <<>>
     /\ port # "open" => ev'.type # "write" /\ JobsStay]_vars

\* C18 (amended): a tick while the queue is empty, or before main has
\* created the first transport, changes nothing and the jobs enqueued then
\* stay queued; once a transport has been created a tick takes the oldest
\* job out of the queue also while that transport is closed, and hands it to
\* the closed port.
C18_NoWriteBeforeFirstTransport ==
  [][/\ ev'.type = "write" => uartSendBuffer # <<>>
     /\ port = "undefined" => ev'.type # "write" /\ JobsStay
     /\ port = "closed" /\ ev'.type # "write" => JobsStay
     /\ port = "closed" /\ ev'.type = "write" =>
          /\ uartSendBuffer' = Tail(uartSendBuffer)
          /\ ev'.txBuf = Head(uartSendBuffer).txBuf]_vars

\* a tick has taken a job out of the queue while the transport was closed,
\* and another job is still waiting
C18_Witness ==
  /\ port = "closed"
  /\ ev.type = "write"
  /\ uartSendBuffer # <<>>

(* ---------------------------------- C19 -------------------------------- *)
\* the bytes of b from position `from` on are the codes of the first n
\* characters of str, and zero after them
HoldsText(b, from, str, n) ==
  LET len == IF Len(str) < n THEN Len(str) ELSE n
  IN  \A i \in from..Len(b) :
        b[i] = IF i - from + 1 <= len THEN CharCode(str[i - from + 1]) ELSE 0

\* the destination of a job as a number: 0xffff when no address is given
Destination(msg) ==
  IF "addr" \in DOMAIN msg /\ msg.addr # null THEN parseHex(msg.addr) ELSE 65535

\* C19: every queued buffer has txlength bytes and ends with a zero byte; the
\* buffer of a job that is not internal, in server use, holds the
\* destination address in its first two bytes, low byte first, and then the
\* text cut to txlength - 3 characters; in peer use the buffer holds the
\* text cut to txlength - 1 characters.
C19_BufferLayout ==
  /\ \A i \in 1..Len(uartSendBuffer) :
       /\ Len(uartSendBuffer[i].txBuf) = txlength
       /\ uartSendBuffer[i].txBuf[txlength] = 0
  /\ ev.type = "uartWrite" =>
       LET b == uartSendBuffer[Len(uartSendBuffer)].txBuf
       IN  /\ isServer /\ "internal" \notin DOMAIN ev.msg =>
                /\ b[1] + 256 * b[2] = Destination(ev.msg)
                /\ b[1] < 256
                /\ HoldsText(b, 3, ev.msg.str, txlength - 3)
           /\ ~isServer => HoldsText(b, 1, ev.msg.str, txlength - 1)

\* in server use a text longer than a buffer has been queued for an address
C19_Witness ==
  /\ isServer
  /\ ev.type = "uartWrite"
  /\ "internal" \notin DOMAIN ev.msg
  /\ Len(ev.msg.str) > txlength - 3
  /\ uartSendBuffer[Len(uartSendBuffer)].txBuf[txlength - 1] # 0

(* ---------------------------------- C20 -------------------------------- *)
\* The encoder of the decoder's documentation, over the bytes x still to
\* encode with k escape characters read: a run of k escape characters
\* before a stand-in becomes 2k escape characters and a stand-in, before an
\* end-of-message character 2k + 1 escape characters and a stand-in; every
\* other byte, and a run before it or at the end, is left as it is.
RECURSIVE encodeLoop(_, _)
encodeLoop(x, k) ==
  IF x = <<>> THEN escapes(k)
  ELSE LET c == Head(x)
       IN  IF c = ESCAPECHAR THEN encodeLoop(Tail(x), k + 1)
           ELSE IF c = STANDINCHAR
           THEN escapes(2 * k) \o <<STANDINCHAR>> \o encodeLoop(Tail(x), 0)
           ELSE IF c = EOMCHAR
           THEN escapes(2 * k + 1) \o <<STANDINCHAR>> \o encodeLoop(Tail(x), 0)
           ELSE escapes(k) \o <<c>> \o encodeLoop(Tail(x), 0)

encode(x) == encodeLoop(x, 0)

\* the payloads tried, each with its encoding
Encoded == {<<x, encode(x)>> : x \in Buffers(MaxBytes)}

\* C20: decoding the encoding of a byte sequence gives the sequence back,
\* and no encoding contains the end-of-message character.
C20_DecodeInvertsEncode ==
  /\ \A p \in Encoded : \A i \in 1..Len(p[2]) : p[2][i] # EOMCHAR
  /\ ev.type = "decoded" => \A p \in Encoded : p[2] = rx => ev.data = p[1]

\* the encoding of an escape character followed by an end-of-message
\* character has been received and decoded
C20_Witness ==
  /\ ev.type = "decoded"
  /\ rx = encode(<<ESCAPECHAR, EOMCHAR>>)
  /\ rx = <<ESCAPECHAR, ESCAPECHAR, ESCAPECHAR, STANDINCHAR>>
  /\ ev.data = <<ESCAPECHAR, EOMCHAR>>

(* ---------------------------------- C21 -------------------------------- *)
\* how often the byte c occurs in b
Count(b, c) == Cardinality({i \in 1..Len(b) : b[i] = c})

\* the escaped terminators of b: the stand-in characters that follow a run
\* of escape characters of odd length
EscapedTerminators(b) ==
  Cardinality({i \in 1..Len(b) :
    /\ b[i] = STANDINCHAR
    /\ \E k \in 0..(i - 1) :
         /\ k % 2 = 1
         /\ \A j \in (i - k)..(i - 1) : b[j] = ESCAPECHAR
         /\ (i - k = 1 \/ b[i - k - 1] # ESCAPECHAR)})

\* made only of the three characters of the scheme
OnlySpecial(b) == \A i \in 1..Len(b) : b[i] \in {ESCAPECHAR, STANDINCHAR, EOMCHAR}

\* C21 (as stated): for an input of escape, stand-in and terminator bytes,
\* every terminator byte of the output comes from an escaped terminator: the
\* output holds as many terminators as the input holds escaped terminators.
C21_TerminatorsOnlyFromEscapes ==
  ev.type = "decoded" /\ OnlySpecial(rx) =>
    Count(ev.data, EOMCHAR) = EscapedTerminators(rx)

\* C21 (amended): every terminator byte of the output comes from an escaped
\* terminator or is a terminator byte of the input, which the decoder
\* copies as it is; an input without terminator bytes gives terminators
\* only from escaped terminators.
C21_TerminatorsFromEscapesOrInput ==
  ev.type = "decoded" /\ OnlySpecial(rx) =>
    /\ Count(ev.data, EOMCHAR) = EscapedTerminators(rx) + Count(rx, EOMCHAR)
    /\ Count(rx, EOMCHAR) = 0 => Count(ev.data, EOMCHAR) = EscapedTerminators(rx)

\* an escaped terminator and a terminator byte of the input, both decoded
C21_Witness ==
  /\ ev.type = "decoded"
  /\ rx = <<ESCAPECHAR, STANDINCHAR, EOMCHAR>>
  /\ ev.data = <<EOMCHAR, EOMCHAR>>

(* --------------------------------- C22 --------------------------------- *)
\* the blacklist counter of the hardware id is a number above maxTries
Blacklisted(id) ==
  /\ Has(finder.blacklist, id)
  /\ finder.blacklist[id] # <<>>
  /\ finder.blacklist[id][1] > maxTries

\* a tick of a poller of listPorts has just run its selection
Ticked == ev.type = "tick" /\ ~ev.stopped

Live(i) == transports[i].state \in {"opening", "open"}

\* the transports whose handlers have called findPorts again: those that
\* failed to open and those whose "close" timeout has fired
Restarted ==
  {i \in 1..Len(transports) :
     \/ transports[i].state = "failed"
     \/ /\ transports[i].state = "closed"
        /\ [kind |-> "reconnect", port |-> i] \notin timers}

\* main has just been called with the path a discovery cycle resolved with
MainCalled == (ev.type = "tick" /\ ev.main) \/ ev.type = "input"

\* C23: at most one transport is opening or open at any time, every earlier
\* transport is closed or has failed, one discovery cycle has been started
\* at the start of the program and one by each transport that closed or
\* failed, and main is called only while the cycle started last (after the
\* end of the previous transport) is pending, with the path of that cycle.
C23_OneTransportAtATime ==
  /\ \A i, j \in 1..Len(transports) : Live(i) /\ Live(j) => i = j
  /\ \A i \in 1..Len(transports) : i < current => ~Live(i)
  /\ discovery.started = 1 + Cardinality(Restarted)
  /\ discovery.pending => discovery.started = 1 + Len(transports)
  /\ MainCalled =>
       /\ discovery.started = current
       /\ ev.type = "tick" => ev.cycle = current
       /\ transports[current].path = ev.resolved[1]
       /\ \A i \in 1..(current - 1) : i \in Restarted

\* a third transport is open after the first failed to open and the second
\* was closed
C23_Witness ==
  /\ current = 3
  /\ transports[1].state = "failed"
  /\ transports[2].state = "closed"
  /\ transports[3].state = "open"

(* --------------------------------- C24 --------------------------------- *)
\* the challenge timer that has just fired was armed for a transport that
\* was closed before it fired
StaleTimerFired == ev.type = "challengeTimeout" /\ ~ev.live

\* C24: a challenge timer armed for a transport that has since been closed
\* has no effect when it fires: no blacklist counter changes and no transport
\* is closed.
C24_StaleChallengeTimerHarmless ==
  StaleTimerFired => finder.blacklist = ev.before.blacklist /\ ~ev.closes

(* --------------------------------- C25 --------------------------------- *)
\* C25: at most one discovery poller is active at any time, and a polling
\* tick that changes the device list, the candidate queue or the round-robin
\* index belongs to the discovery cycle started last.
C25_OnePollerAtATime ==
  /\ Len(pollers) <= 1
  /\ Ticked => ev.cycle = discovery.started

(* --------------------------------- C26 --------------------------------- *)
\* the paths of the known devices (the keys of `all`)
Known == {finder.all[i][1] : i \in 1..Len(finder.all)}

\* the paths the operating system listed in the tick that has just run
Listed == {d.path : d \in ev.listing}

\* C26: after every polling tick the known devices are the devices the
\* operating system listed in that tick.
C26_KnownEqualsListed == Ticked => Known = Listed

(* --------------------------------- C27 --------------------------------- *)
\* C27: a polling tick of automatic discovery resolves only with the path of
\* a device the operating system listed in that tick, and after the tick
\* every candidate of the queue is a listed device.
C27_ResolvesOnlyListed ==
  Ticked =>
    /\ ev.resolved # <<>> => ev.resolved[1] \in Listed
    /\ \A j \in 1..Len(finder.ok) : finder.ok[j][1] \in Listed

(* --------------------------------- C28 --------------------------------- *)
\* a challenge timer has just fired without a response
TimedOut == ev.type = "challengeTimeout" /\ ~ev.responded

\* the hardware id of the device whose path discovery handed out last
HandedOut == pnpIdOf(transports[ev.current].path)

\* C28: a challenge timeout increments by one the blacklist counter of the
\* hardware id of the device whose path discovery handed out last, and
\* changes no other counter.
C28_TimeoutCountsHandedOut ==
  TimedOut =>
    /\ Has(ev.before.blacklist, HandedOut)
    /\ ev.before.blacklist[HandedOut] # <<>>
    /\ finder.blacklist =
         Put(ev.before.blacklist, HandedOut, <<ev.before.blacklist[HandedOut][1] + 1>>)

(* --------------------------------- C29 --------------------------------- *)
\* the challenge timeouts of transports of the device since the blacklist
\* was last cleared
TimeoutsOf(id) == IF Has(timeouts, id) THEN timeouts[id] ELSE 0

\* C29: in every reachable state each candidate of the accepted queue has a
\* blacklist counter that is a natural number, equal to the number of
\* handshake timeouts with its hardware id since the blacklist was last
\* cleared (a candidate is first sighted before its first handshake).
C29_CountersCountTimeouts ==
  \A j \in 1..Len(finder.ok) :
    /\ Has(finder.blacklist, finder.ok[j][2])
    /\ finder.blacklist[finder.ok[j][2]] # <<>>
    /\ finder.blacklist[finder.ok[j][2]][1] = TimeoutsOf(finder.ok[j][2])

C40_DecodedNoLongerThanInput ==
  ev.type = "decoded" =>
    /\ Len(ev.data) <= Len(rx)
    /\ rx = <<>> => ev.data = <<>>

\* a buffer of three escape characters and a stand-in character has been
\* decoded to an escape character and the end-of-message character
C40_Witness ==
  /\ ev.type = "decoded"
  /\ rx = <<ESCAPECHAR, ESCAPECHAR, ESCAPECHAR, STANDINCHAR>>
  /\ ev.data = <<ESCAPECHAR, EOMCHAR>>

(* --------------------------------- C39 --------------------------------- *)
\* C39: handling a frame leaves the session of every address other than the
\* frame's sender as it was, open with the same buffer or absent, whether the
\* frame is accepted or rejected.
C39_OtherSessionsUntouched ==
  [][ev'.type = "data" =>
       \A a \in (DOMAIN sessionData \cup DOMAIN sessionData') \ {ev'.addr} :
         /\ Has(sessionData, a)
         /\ Has(sessionData', a)
         /\ sessionData'[a] = sessionData[a]]_vars

\* a frame with sensor data has been stored for its sender while another
\* address has a session open that holds a row
C39_Witness ==
  /\ Decoded(ev) /\ HasData(ev) /\ ev.error = NoError
  /\ Has(sessionData, ev.addr)
  /\ \E a \in DOMAIN sessionData \ {ev.addr} : Rows(sessionData[a]) > 0

(* --------------------------------- C37 --------------------------------- *)
\* the calls of main whose heartbeat interval is set and not cleared
Beating == {i \in 1..Len(transports) : transports[i].heartbeat}

\* C37: in server use at most one heartbeat interval is active at any time.
C37_OneHeartbeatTimer == Cardinality(Beating) <= 1

(* --------------------------------- C32 --------------------------------- *)
\* the transport i has been closed
Closed(i) == Len(transports) >= i /\ transports[i].state = "closed"

\* the transport i has been closed and the timeout of its "close" handler
\* has fired
ClosedRestarted(i) == Closed(i) /\ [kind |-> "reconnect", port |-> i] \notin timers

\* C32: every transport that is closed (below the bound of the cycles) is
\* eventually followed by a restart of discovery; the step that restarts it
\* starts one cycle, with one new poller, and leaves the heartbeat interval
\* of the closed transport cleared and its parser destroyed; and the restart
\* for a transport happens once.
C32_CloseRestartsDiscoveryOnce ==
  /\ \A i \in 1..(MaxCycles - 1) : Closed(i) ~> ClosedRestarted(i)
  /\ [][\A i \in 1..Len(transports) :
          /\ ClosedRestarted(i) => ClosedRestarted(i)'
          /\ (Closed(i) /\ ~ClosedRestarted(i) /\ ClosedRestarted(i)') =>
               /\ discovery'.started = discovery.started + 1
               /\ discovery'.pending
               /\ Len(pollers') = Len(pollers) + 1
               /\ ~transports'[i].heartbeat
               /\ transports'[i].parser = "destroyed"]_vars

\* discovery has been restarted after the close of the first transport, which
\* had been open
C32_Witness ==
  /\ ev.type = "reconnect" /\ ev.port = 1
  /\ ClosedRestarted(1)
  /\ discovery.started = 2 /\ discovery.pending
  /\ ~transports[1].heartbeat /\ transports[1].parser = "destroyed"

(* --------------------------------- C31 --------------------------------- *)
\* the transport i is open
Open(i) == Len(transports) >= i /\ transports[i].state = "open"

\* the transport i is open and its challenge has been answered
Answered(i) == Open(i) /\ i = current /\ responded

\* after every open the wait for the response ends: the connection becomes
\* live or the transport is closed
WaitEnds == \A i \in 1..MaxCycles : Open(i) ~> (Answered(i) \/ Closed(i))

\* a challenge timer that fires without a response increments by one the
\* blacklist counter of the device of its transport and leaves that transport
\* closed
TimerCountsAndCloses ==
  TimedOut =>
    /\ Has(ev.before.blacklist, pnpIdOf(transports[ev.port].path))
    /\ ev.before.blacklist[pnpIdOf(transports[ev.port].path)] # <<>>
    /\ finder.blacklist[pnpIdOf(transports[ev.port].path)] =
         <<ev.before.blacklist[pnpIdOf(transports[ev.port].path)][1] + 1>>
    /\ Closed(ev.port)
    /\ ev.current # ev.port => ~ev.closes

\* C31: in server use, after every open of a transport the connection does
\* not wait for the response for ever: a frame with the signature arrives and
\* the connection is live, or the challenge timer of the transport fires, the
\* counter of its candidate is incremented and the transport is closed.
C31_ChallengeEndsTheWait == WaitEnds /\ []TimerCountsAndCloses

(* C33 *)
\* when the last frame of any kind arrived, or main stored its clock reading
LastInbound == IF rx.at > hbTime THEN rx.at ELSE hbTime
\* when the last heartbeat frame arrived, or main stored its clock reading
LastAnswer == IF rx.hb >= 0 THEN rx.hb ELSE hbTime
\* the last step was a heartbeat tick
HeartbeatTick == "warning" \in DOMAIN ev
\* the last step received a frame
FrameReceived == ev.type = "data"

\* C33: every frame received refreshes the timestamp of the heartbeat check,
\* so the warning of a possible crash is raised only at a heartbeat tick at
\* which more than 1.5 and less than 2.5 heartbeat intervals have passed
\* since the last frame of any kind (or since main)
C33_AnyFrameRefreshes ==
  /\ FrameReceived => hbTime = clock
  /\ HeartbeatTick /\ ev.warning => possiblyCrashed(clock, LastInbound)

\* C33 as the code has it: only the heartbeat frame (and main) store the
\* timestamp, whatever other frames arrive, and the warning is raised
\* exactly at the ticks at which more than 1.5 and less than 2.5 intervals
\* have passed since the last heartbeat frame (or since main)
C33_HeartbeatFrameRefreshes ==
  /\ rx.hb >= 0 => hbTime = rx.hb
  /\ HeartbeatTick =>
       (ev.warning <=> /\ heartbeatInterval * 3 < 2 * (clock - LastAnswer)
                       /\ 2 * (clock - LastAnswer) < heartbeatInterval * 5)

\* the warning is raised at a tick although a frame of a SensorTag has just
\* arrived, the last heartbeat frame being two intervals old
C33_Witness ==
  /\ HeartbeatTick /\ ev.warning
  /\ rx.hb >= 0 /\ rx.at = clock /\ rx.hb < rx.at

(* C34 *)
\* C34: when the timeout of the "close" handler restarts discovery, the
\* session buffers and the outbound queue hold nothing: whatever was stored
\* during the connection that closed is gone
C34_RestartFromCleanState ==
  ev.type = "reconnect" => sessionData = EmptyObj /\ uartSendBuffer = <<>>

(* C35 *)
\* the last step was a line typed at the port menu
Typed == ev.type = "input"
\* the line denotes the integer k
DenotesIndex(line, k) ==
  LET x == NumberOfLine(line) IN ~x.nan /\ ~x.neg /\ x.num = k * x.den
\* the line denotes a number at most one half below k and less than one half
\* above it
RoundsTo(line, k) ==
  LET x == NumberOfLine(line)
  IN  ~x.nan /\ ~x.neg /\ (2 * k - 1) * x.den <= 2 * x.num /\ 2 * x.num < (2 * k + 1) * x.den
\* a line that is refused changes nothing and leaves discovery pending
RefusedLineChangesNothing ==
  Typed' /\ ev'.resolved = <<>> =>
    /\ UNCHANGED <<finder, pollers, discovery, transports, port>>
    /\ discovery.pending
\* while discovery is pending and a device is known, the line "1" resolves
ValidLineStillResolves ==
  discovery.pending /\ finder.all # <<>> => ENABLED typeNumber(<<"1">>)

\* C35: a line resolves discovery only if it denotes an integer between 1
\* and the number of known devices, and then with the path of the device at
\* that index
C35_OnlyIntegerIndexResolves ==
  Typed /\ ev.resolved # <<>> =>
    \E k \in 1..Len(ev.all) : DenotesIndex(ev.line, k) /\ ev.resolved = <<ev.all[k][1]>>

\* C35 as the code has it: a line resolves discovery exactly if it is a
\* number that rounds to an integer between 1 and the number of known
\* devices, and then with the path of the device at that index; any other
\* line changes nothing, and a valid line still resolves afterwards
C35_RoundedIndexResolves ==
  /\ [](Typed =>
         /\ ev.resolved # <<>> <=> \E k \in 1..Len(ev.all) : RoundsTo(ev.line, k)
         /\ \A k \in 1..Len(ev.all) : RoundsTo(ev.line, k) => ev.resolved = <<ev.all[k][1]>>)
  /\ [][RefusedLineChangesNothing]_vars
  /\ []ValidLineStillResolves

\* the line "1.5" has resolved discovery with the second of two known devices
C35_Witness ==
  Typed /\ ev.line = <<"1", ".", "5">> /\ Len(ev.all) = 2 /\ ev.resolved = <<ev.all[2][1]>>

(* C36 *)
\* the pollers of listPorts that belong to the discovery cycle that is running
Polling == {p \in 1..Len(pollers) : pollers[p].cycle = discovery.started}

\* C36: while discovery is pending the interval of listPorts of that cycle is
\* set, so the ports keep being listed and a device that arrives later
\* becomes known
C36_ListedWhilePending == discovery.pending => Polling # {}

(* C38 *)
\* the device is in the listing of every polling tick
Present(d) == ev.type = "tick" => d \in ev.listing
\* the counter of the device does not exceed maxTries
Eligible(d) == ~Blacklisted(d.pnpId)
\* a tick has resolved the pending discovery with the path of a SensorTag
\* whose counter does not exceed maxTries
ResolvedEligible ==
  /\ Ticked /\ ev.main
  /\ \E d \in {D_a, D_b} : ev.resolved = <<d.path>> /\ isTag(d.pnpId) /\ Eligible(d)

====
